---- MODULE Spec2Model ----
(***************************************************************************)
(* A model of the ObjectInputStream decoder of PretendoNetwork/java.io     *)
(* (src/src/index.ts).  The decoder is a recursive descent parser over a   *)
(* byte source; it keeps a handle table (references), a handle counter     *)
(* (currentHandle) and builds a tree of JavaScript objects.                *)
(*                                                                         *)
(* JavaScript objects have identity and are mutated after they have been   *)
(* registered, so the model keeps an explicit heap: a sequence of cells,   *)
(* the address of a cell being its index.  Every reader of the source is   *)
(* an operator, with the source's name, from a decode state                *)
(*   [stream, pos, heap, references, currentHandle, thrown, error, ret,    *)
(*    events, source]                                                      *)
(* to the decode state after the call.  A thrown JavaScript exception is   *)
(* the flag `thrown`; every operator passes a thrown state through.        *)
(* `ret` is the value the call returned.  `events` is a history variable:  *)
(* it records what the readers did and is never read by them.  `source`    *)
(* is what the byte source does when asked for a negative number of bytes. *)
(* `other` is a second decoder, with a stream and a cursor of its own.     *)
(*                                                                         *)
(* The older decoder of the repository, JavaObjectInputStream              *)
(* (src/src/java-object-input-stream.ts), is modelled the same way; its    *)
(* readers carry the prefix JavaObjectInputStream_.  CLASSES is its        *)
(* registry of classes, a variable of the source's module.                 *)
(***************************************************************************)
EXTENDS Integers, Sequences, FiniteSets, TLC

VARIABLES stream, pos, heap, references, currentHandle, objects, pc, error,
          events, starts, source, other, CLASSES

vars == <<stream, pos, heap, references, currentHandle, objects, pc, error,
          events, starts, source, other, CLASSES>>

----------------------------------------------------------------------------
(* Protocol constants.                                                     *)

STREAM_MAGIC == <<172, 237>>
STREAM_VERSION == 5
TC_NULL == 112
TC_REFERENCE == 113
TC_CLASSDESC == 114
TC_OBJECT == 115
TC_STRING == 116
TC_ARRAY == 117
TC_CLASS == 118
TC_BLOCKDATA == 119
TC_ENDBLOCKDATA == 120
TC_RESET == 121
TC_BLOCKDATALONG == 122
TC_EXCEPTION == 123
TC_LONGSTRING == 124
TC_PROXYCLASSDESC == 125
TC_ENUM == 126
baseWireHandle == 8257536
initialHandle == 8257536
SC_WRITE_METHOD == 1
SC_SERIALIZABLE == 2
SC_EXTERNALIZABLE == 4
SC_BLOCKDATA == 8
SC_ENUM == 16

----------------------------------------------------------------------------
(* JavaScript values.  Every value has the same three fields, so that any  *)
(* two values can be compared: t is the type tag, n a number (or the       *)
(* address of a heap cell for t = "ref"), s a string as its sequence of    *)
(* code units.  A 64-bit integer does not fit a model integer: it is kept  *)
(* as s = <<hi, lo>>, its two 32-bit halves read as signed numbers.        *)

Undefined == [t |-> "undefined", n |-> 0, s |-> <<>>]
Null == [t |-> "null", n |-> 0, s |-> <<>>]
Num(n) == [t |-> "number", n |-> n, s |-> <<>>]
Bool(b) == [t |-> "boolean", n |-> IF b THEN 1 ELSE 0, s |-> <<>>]
Str(u) == [t |-> "string", n |-> 0, s |-> u]
BigInt(hl) == [t |-> "bigint", n |-> 0, s |-> hl]
Float(bits) == [t |-> "float", n |-> bits, s |-> <<>>]
Double(hl) == [t |-> "double", n |-> 0, s |-> hl]
Bytes(b) == [t |-> "buffer", n |-> 0, s |-> b]
Ref(a) == [t |-> "ref", n |-> a, s |-> <<>>]

IsRef(v) == v.t = "ref"
\* JavaScript truthiness of a value held where the source tests `if (x)`
\* or `x || null`: objects are truthy, null and undefined are not.
Truthy(v) == v.t = "ref"

----------------------------------------------------------------------------
(* Heap cells.  All cells have the same fields; a field the class does not *)
(* declare, or has not assigned yet, holds Undefined.                      *)

NoInfo == [defined |-> FALSE, flags |-> Undefined, fields |-> <<>>,
           annotation |-> <<>>, superClass |-> Undefined]
NewJavaClassDescInfo == [defined |-> TRUE, flags |-> Undefined, fields |-> <<>>,
                         annotation |-> <<>>, superClass |-> Undefined]
NewClassData == [values |-> <<>>, annotation |-> <<>>]
NewJavaClassDescInfoField == [typeCode |-> Undefined, name |-> Undefined,
                              className1 |-> Undefined]

Cell(kind) == [kind |-> kind, value |-> Undefined, handle |-> Undefined,
               description |-> Undefined, values |-> <<>>,
               constant |-> Undefined, data |-> Undefined,
               className |-> Undefined, serialVersionUID |-> Undefined,
               info |-> NoInfo, classData |-> NewClassData]

NewJavaString == Cell("JavaString")
NewJavaLongString == Cell("JavaLongString")
NewBlockData == Cell("BlockData")
NewBlockDataLong == Cell("BlockDataLong")
NewJavaObject == Cell("JavaObject")
NewJavaArray == Cell("JavaArray")
NewJavaEnum == Cell("JavaEnum")
\* className = new JavaString(): a string object of its own whose value is
\* not set yet; it is owned by the descriptor alone and kept inline.
NewJavaClassDesc == Cell("JavaClassDesc")

----------------------------------------------------------------------------
(* Decode states.                                                          *)

Throw(s, msg) == IF s.thrown THEN s ELSE [s EXCEPT !.thrown = TRUE, !.error = msg]
Return(s, v) == IF s.thrown THEN s ELSE [s EXCEPT !.ret = v]
Log(s, e) == IF s.thrown THEN s ELSE [s EXCEPT !.events = Append(@, e)]

\* `new C()`: the new cell's address is returned.
new(s, cell) ==
    IF s.thrown THEN s
    ELSE [s EXCEPT !.heap = Append(@, cell), !.ret = Ref(Len(s.heap) + 1)]

----------------------------------------------------------------------------
(* The byte source (interface InputStream).  The repository declares the   *)
(* interface only; the caller provides the implementation.  Its contract:  *)
(* peek does not advance and fails at the end of the stream; a read past   *)
(* the end fails.  The interface says nothing of a read of a negative      *)
(* number of bytes; what an implementation does then is one of             *)
(* NegativeLength: it fails, it returns no bytes and stays, or it returns  *)
(* no bytes and moves the offset by the (negative) count, which fails      *)
(* when that falls before the start of the data.                           *)

NegativeLength == {"throws", "empty", "rewind"}

ToInt8(b) == IF b >= 128 THEN b - 256 ELSE b
ToInt16(hi, lo) == ToInt8(hi) * 256 + lo
ToUInt16(hi, lo) == hi * 256 + lo
ToInt32(b) == ToInt8(b[1]) * 16777216 + b[2] * 65536 + b[3] * 256 + b[4]

hasDataLeft(s) == s.pos < Len(s.stream)

peek(s) ==
    IF s.thrown THEN s
    ELSE IF s.pos >= Len(s.stream) THEN Throw(s, "UnexpectedEof")
    ELSE Return(s, s.stream[s.pos + 1])

read(s, len) ==
    IF s.thrown THEN s
    ELSE IF len < 0
    THEN CASE s.source = "throws" -> Throw(s, "RangeError")
           [] s.source = "empty" -> [s EXCEPT !.ret = <<>>]
           [] s.source = "rewind" ->
                  IF s.pos + len < 0 THEN Throw(s, "RangeError")
                  ELSE [s EXCEPT !.pos = @ + len, !.ret = <<>>]
    ELSE IF s.pos + len > Len(s.stream) THEN Throw(s, "UnexpectedEof")
    ELSE [s EXCEPT !.pos = @ + len,
                   !.ret = SubSeq(s.stream, s.pos + 1, s.pos + len)]

skip(s, offset) ==
    IF s.thrown THEN s
    ELSE IF offset < 0 \/ s.pos + offset > Len(s.stream) THEN Throw(s, "UnexpectedEof")
    ELSE [s EXCEPT !.pos = @ + offset]

readUInt8(s) == LET r == read(s, 1) IN IF r.thrown THEN r ELSE Return(r, r.ret[1])
readInt8(s) == LET r == read(s, 1) IN IF r.thrown THEN r ELSE Return(r, ToInt8(r.ret[1]))
readBooleanSrc(s) == LET r == read(s, 1) IN IF r.thrown THEN r ELSE Return(r, r.ret[1] # 0)
readInt16BE(s) ==
    LET r == read(s, 2) IN IF r.thrown THEN r ELSE Return(r, ToInt16(r.ret[1], r.ret[2]))
readUInt16BE(s) ==
    LET r == read(s, 2) IN IF r.thrown THEN r ELSE Return(r, ToUInt16(r.ret[1], r.ret[2]))
readInt32BE(s) == LET r == read(s, 4) IN IF r.thrown THEN r ELSE Return(r, ToInt32(r.ret))
readInt64BE(s) ==
    LET r == read(s, 8)
    IN IF r.thrown THEN r
       ELSE Return(r, <<ToInt32(SubSeq(r.ret, 1, 4)), ToInt32(SubSeq(r.ret, 5, 8))>>)
\* The bits of a float or double are kept as read, not interpreted.
readFloatBE(s) == readInt32BE(s)
readDoubleBE(s) == readInt64BE(s)

\* Buffer.toString(): UTF-8 decoding.  A byte below 0x80 is that code unit;
\* a byte that starts no valid sequence decodes to U+FFFD.  The inputs of
\* the model hold no valid multi-byte sequence.
toString(b) == [i \in 1..Len(b) |-> IF b[i] < 128 THEN b[i] ELSE 65533]

\* Number(length) of a 64-bit length <<hi, lo>>: a length of 2^31 or more,
\* or a negative one, is no length the byte source can serve; it is
\* mapped to -1, which read refuses as it refuses any such length.
NumberOfInt64(hl) == IF hl[1] = 0 /\ hl[2] >= 0 THEN hl[2] ELSE -1

----------------------------------------------------------------------------
(* Helper methods of ObjectInputStream.                                    *)

readBoolean(s) == readBooleanSrc(s)
readByte(s) == readInt8(s)
readChar(s) == LET r == readUInt16BE(s) IN IF r.thrown THEN r ELSE Return(r, <<r.ret>>)
readDouble(s) == readDoubleBE(s)
readFloat(s) == readFloatBE(s)
readInt(s) == readInt32BE(s)
readLong(s) == readInt64BE(s)
\* readShort reading the two bytes as an unsigned number.
readShort_unsigned(s) == readUInt16BE(s)
readShort(s) == readInt16BE(s)
readUTF(s) ==
    LET afterBytes(r2) == IF r2.thrown THEN r2 ELSE Return(r2, toString(r2.ret))
        afterLength(r1) == IF r1.thrown THEN r1 ELSE afterBytes(read(r1, r1.ret))
    IN afterLength(readUInt16BE(s))
readLongUTF(s) ==
    LET afterBytes(r2) == IF r2.thrown THEN r2 ELSE Return(r2, toString(r2.ret))
        afterLength(r1) ==
            IF r1.thrown THEN r1 ELSE afterBytes(read(r1, NumberOfInt64(r1.ret)))
    IN afterLength(readInt64BE(s))

----------------------------------------------------------------------------
(* History records.  One shape for all of them: ev names what happened, a  *)
(* and b are heap addresses, n a number, p a stream position, heap a heap  *)
(* snapshot, or the one cell the record is about (empty when none is       *)
(* kept).                                                                  *)

Ev(ev, a, b, n, p, h) == [ev |-> ev, a |-> a, b |-> b, n |-> n, p |-> p, heap |-> h]

----------------------------------------------------------------------------
(* clone() of the node classes.                                            *)
(*                                                                         *)
(* A method of several statements is written as its steps, the last one    *)
(* first: after<X>(r) is what the method does once the statement that      *)
(* produces X has left the decode state r.                                 *)

\* String(x): a string stays itself, undefined becomes "undefined".
StringOf(v) ==
    IF v.t = "string" THEN v
    ELSE Str(<<117, 110, 100, 101, 102, 105, 110, 101, 100>>)

RECURSIVE clone(_, _)
RECURSIVE cloneList(_, _, _)
RECURSIVE cloneFields(_, _, _)
RECURSIVE cloneValues(_, _, _)

\* The value is taken as it is, a node not cloned.
cloneIfHasMethod_shallow(s, v) == Return(s, v)

\* hasMethod(value, 'clone') ? value.clone() : value
cloneIfHasMethod(s, v) == IF IsRef(v) THEN clone(s, v.n) ELSE Return(s, v)

\* value?.clone(): null and undefined both give undefined.
optionalClone(s, v) == IF IsRef(v) THEN clone(s, v.n) ELSE Return(s, Undefined)

cloneList(s, list, acc) ==
    LET afterItem(r) == cloneList(r, Tail(list), Append(acc, r.ret))
    IN IF s.thrown THEN s
       ELSE IF Len(list) = 0 THEN Return(s, acc)
       ELSE afterItem(cloneIfHasMethod(s, Head(list)))

JavaString_clone(s, a) ==
    new(s, [NewJavaString EXCEPT !.value = StringOf(s.heap[a].value)])

JavaLongString_clone(s, a) ==
    new(s, [NewJavaLongString EXCEPT !.value = StringOf(s.heap[a].value)])

BlockData_clone(s, a) ==
    IF s.heap[a].data.t # "buffer" THEN Throw(s, "TypeError")
    ELSE new(s, [NewBlockData EXCEPT !.data = s.heap[a].data])

BlockDataLong_clone(s, a) ==
    IF s.heap[a].data.t # "buffer" THEN Throw(s, "TypeError")
    ELSE new(s, [NewBlockDataLong EXCEPT !.data = s.heap[a].data])

JavaClassDescInfoField_clone(s, f) ==
    LET afterClassName1(r) ==
            IF r.thrown THEN r
            ELSE Return(r, [typeCode |-> StringOf(f.typeCode), name |-> StringOf(f.name),
                            className1 |-> r.ret])
    IN afterClassName1(optionalClone(s, f.className1))

cloneFields(s, fields, acc) ==
    LET afterField(r) == cloneFields(r, Tail(fields), Append(acc, r.ret))
    IN IF s.thrown THEN s
       ELSE IF Len(fields) = 0 THEN Return(s, acc)
       ELSE afterField(JavaClassDescInfoField_clone(s, Head(fields)))

JavaClassDescInfo_clone(s, info) ==
    LET afterSuperClass(r1, r2, r3) ==
            IF r3.thrown THEN r3
            ELSE Return(r3, [defined |-> TRUE, flags |-> info.flags, fields |-> r1.ret,
                             annotation |-> r2.ret, superClass |-> r3.ret])
        afterAnnotation(r1, r2) ==
            IF r2.thrown THEN r2
            ELSE afterSuperClass(r1, r2, optionalClone(r2, info.superClass))
        afterFields(r1) ==
            IF r1.thrown THEN r1
            ELSE afterAnnotation(r1, cloneList(r1, info.annotation, <<>>))
    IN afterFields(cloneFields(s, info.fields, <<>>))

cloneValues(s, values, acc) ==
    LET afterValue(r) ==
            cloneValues(r, Tail(values),
                        Append(acc, [name |-> Head(values).name, value |-> r.ret]))
    IN IF s.thrown THEN s
       ELSE IF Len(values) = 0 THEN Return(s, acc)
       ELSE afterValue(cloneIfHasMethod(s, Head(values).value))

ClassData_clone(s, cd) ==
    LET afterAnnotation(r1, r2) ==
            IF r2.thrown THEN r2
            ELSE Return(r2, [values |-> r1.ret, annotation |-> r2.ret])
        afterValues(r1) ==
            IF r1.thrown THEN r1
            ELSE afterAnnotation(r1, cloneList(r1, cd.annotation, <<>>))
    IN afterValues(cloneValues(s, cd.values, <<>>))

\* serialVersionUID and handle are not copied.
JavaClassDesc_clone(s, a) ==
    LET c == s.heap[a]
        k == Len(s.heap) + 1
        afterClassData(r4) ==
            IF r4.thrown THEN r4
            ELSE Return([r4 EXCEPT !.heap[k].classData = r4.ret], Ref(k))
        afterInfo(r2) ==
            IF r2.thrown THEN r2
            ELSE afterClassData(ClassData_clone([r2 EXCEPT !.heap[k].info = r2.ret],
                                                c.classData))
        afterClassName(r1) ==
            IF ~c.info.defined THEN Throw(r1, "TypeError")
            ELSE afterInfo(JavaClassDescInfo_clone(r1, c.info))
    IN afterClassName(new(s, [NewJavaClassDesc EXCEPT
                                  !.className = StringOf(c.className)]))

JavaObject_clone(s, a) ==
    LET k == Len(s.heap) + 1
        afterDescription(r2) ==
            IF r2.thrown THEN r2
            ELSE Return([r2 EXCEPT !.heap[k].description = r2.ret], Ref(k))
    IN afterDescription(optionalClone(new(s, NewJavaObject), s.heap[a].description))

JavaArray_clone(s, a) ==
    LET k == Len(s.heap) + 1
        afterValues(r4) ==
            IF r4.thrown THEN r4
            ELSE Return([r4 EXCEPT !.heap[k].values = r4.ret], Ref(k))
        afterDescription(r2) ==
            IF r2.thrown THEN r2
            ELSE afterValues(cloneList([r2 EXCEPT !.heap[k].description = r2.ret],
                                       s.heap[a].values, <<>>))
    IN afterDescription(optionalClone(new(s, NewJavaArray), s.heap[a].description))

JavaEnum_clone(s, a) ==
    LET k == Len(s.heap) + 1
        afterConstant(r4) ==
            IF r4.thrown THEN r4
            ELSE Return([r4 EXCEPT !.heap[k].constant = r4.ret], Ref(k))
        afterDescription(r2) ==
            IF r2.thrown THEN r2
            ELSE IF ~IsRef(s.heap[a].constant)
                 THEN Throw([r2 EXCEPT !.heap[k].description = r2.ret], "TypeError")
                 ELSE afterConstant(clone([r2 EXCEPT !.heap[k].description = r2.ret],
                                          s.heap[a].constant.n))
    IN afterDescription(optionalClone(new(s, NewJavaEnum), s.heap[a].description))

\* object.clone(): dispatch on the class of the object.
clone(s, a) ==
    IF s.thrown THEN s
    ELSE LET kind == s.heap[a].kind
         IN CASE kind = "JavaString" -> JavaString_clone(s, a)
              [] kind = "JavaLongString" -> JavaLongString_clone(s, a)
              [] kind = "BlockData" -> BlockData_clone(s, a)
              [] kind = "BlockDataLong" -> BlockDataLong_clone(s, a)
              [] kind = "JavaClassDesc" -> JavaClassDesc_clone(s, a)
              [] kind = "JavaObject" -> JavaObject_clone(s, a)
              [] kind = "JavaArray" -> JavaArray_clone(s, a)
              [] kind = "JavaEnum" -> JavaEnum_clone(s, a)

----------------------------------------------------------------------------
(* The handle table.                                                       *)

\* newHandle without the push to the table.
newHandle_noPush(s, a) ==
    IF s.thrown THEN s
    ELSE Log([s EXCEPT !.currentHandle = @ + 1,
                       !.heap[a].handle = Num(s.currentHandle + 1)],
             Ev("newHandle", a, 0, s.currentHandle + 1, s.pos, <<>>))

\* object.handle = ++this.currentHandle; this.references.push(object)
\* The handle given and the cursor at that moment are logged.
newHandle(s, a) ==
    IF s.thrown THEN s
    ELSE Log([s EXCEPT !.currentHandle = @ + 1,
                       !.heap[a].handle = Num(s.currentHandle + 1),
                       !.references = Append(@, a)],
             Ev("newHandle", a, 0, s.currentHandle + 1, s.pos, <<>>))

\* The node at address a has been read, from the cursor of s to that of r.
Node(s, r, a) == Log(r, Ev("node", a, 0, s.pos, r.pos, <<>>))

\* The handle table and the next handle before (s) and after (r) a
\* production that owns no handle, logged under the production's name.
Unowned(s, r, production) ==
    Log(r, Ev(production, Len(s.references), Len(r.references), s.currentHandle,
              r.currentHandle, <<s.references, r.references>>))

\* The array index a reference's handle is looked up at.
handleIndex(handle) == handle - baseWireHandle

\* this.references[index]: undefined outside the array.
referencesAt(refs, index) ==
    IF index >= 0 /\ index < Len(refs) THEN Ref(refs[index + 1]) ELSE Undefined

\* readPrevObject returning what the table holds, undefined included,
\* without calling clone on it.
readPrevObject_noClone(s) ==
    LET afterLookup(r3, object, handle) ==
            IF ~IsRef(object) THEN Return(r3, Undefined)
            ELSE Return(Log(r3, Ev("resolved", object.n, object.n, handle, r3.pos,
                                   r3.heap)),
                        object)
        afterHandle(r2) ==
            IF r2.thrown THEN r2
            ELSE afterLookup(Log(r2, Ev("reference", 0, 0, r2.ret, Len(r2.references),
                                        <<>>)),
                             referencesAt(r2.references, handleIndex(r2.ret)), r2.ret)
        afterTypeCode(r1) ==
            IF r1.thrown THEN r1
            ELSE IF r1.ret # TC_REFERENCE
                 THEN Throw(r1, "Invalid TC_REFERENCE type code")
                 ELSE afterHandle(readInt(r1))
    IN afterTypeCode(readByte(s))

\* readPrevObject returning a class descriptor the table holds as it is,
\* not a clone of it, once the descriptor has been read in full.
readPrevObject_sameClassDesc(s) ==
    LET afterClone(r4, object, handle) ==
            IF r4.thrown THEN r4
            ELSE Log(r4, Ev("resolved", object.n, r4.ret.n, handle, r4.pos, r4.heap))
        afterLookup(r3, object, handle) ==
            IF ~IsRef(object) THEN Throw(r3, "TypeError")
            ELSE IF r3.heap[object.n].kind = "JavaClassDesc"
                    /\ r3.heap[object.n].info.defined
                 THEN Return(Log(r3, Ev("resolved", object.n, object.n, handle, r3.pos,
                                        r3.heap)),
                             object)
                 ELSE afterClone(clone(r3, object.n), object, handle)
        afterHandle(r2) ==
            IF r2.thrown THEN r2
            ELSE afterLookup(Log(r2, Ev("reference", 0, 0, r2.ret, Len(r2.references),
                                        <<>>)),
                             referencesAt(r2.references, handleIndex(r2.ret)), r2.ret)
        afterTypeCode(r1) ==
            IF r1.thrown THEN r1
            ELSE IF r1.ret # TC_REFERENCE
                 THEN Throw(r1, "Invalid TC_REFERENCE type code")
                 ELSE afterHandle(readInt(r1))
    IN afterTypeCode(readByte(s))

readPrevObject(s) ==
    LET afterClone(r4, object, handle) ==
            IF r4.thrown THEN r4
            ELSE Unowned(s, Log(r4, Ev("resolved", object.n, r4.ret.n, handle, r4.pos,
                                        r4.heap)),
                         "TC_REFERENCE")
        afterLookup(r3, object, handle) ==
            IF ~IsRef(object) THEN Throw(r3, "TypeError")
            ELSE afterClone(clone(r3, object.n), object, handle)
        afterHandle(r2) ==
            IF r2.thrown THEN r2
            ELSE afterLookup(Log(r2, Ev("reference", 0, 0, r2.ret, Len(r2.references),
                                        <<>>)),
                             referencesAt(r2.references, handleIndex(r2.ret)), r2.ret)
        afterTypeCode(r1) ==
            IF r1.thrown THEN r1
            ELSE IF r1.ret # TC_REFERENCE
                 THEN Throw(r1, "Invalid TC_REFERENCE type code")
                 ELSE afterHandle(readInt(r1))
    IN afterTypeCode(readByte(s))

readNullReference(s) == Unowned(s, Return(skip(s, 1), Null), "TC_NULL")

----------------------------------------------------------------------------
(* Type code readers without sub-productions.                              *)

\* this.<method>(arg): a call of one of the readers of the grammar by
\* another; arg is the method's argument, if it has one.
RECURSIVE this(_, _, _)

readTC_STRING(s) ==
    LET a == Len(s.heap) + 1
        afterValue(r3) ==
            IF r3.thrown THEN r3
            ELSE Node(s, Return([r3 EXCEPT !.heap[a].value = Str(r3.ret)], Ref(a)), a)
        afterTypeCode(r1) ==
            IF r1.thrown THEN r1
            ELSE IF r1.ret # TC_STRING THEN Throw(r1, "Invalid TC_STRING type code")
            ELSE afterValue(readUTF(newHandle(new(r1, NewJavaString), a)))
    IN afterTypeCode(readByte(s))

readTC_LONGSTRING(s) ==
    LET a == Len(s.heap) + 1
        afterValue(r3) ==
            IF r3.thrown THEN r3
            ELSE Node(s, Return([r3 EXCEPT !.heap[a].value = Str(r3.ret)], Ref(a)), a)
        afterTypeCode(r1) ==
            IF r1.thrown THEN r1
            ELSE IF r1.ret # TC_LONGSTRING
                 THEN Throw(r1, "Invalid TC_LONGSTRING type code")
                 ELSE afterValue(readLongUTF(newHandle(new(r1, NewJavaLongString), a)))
    IN afterTypeCode(readByte(s))

\* The BlockData is given a handle.
readTC_BLOCKDATA_newHandle(s) ==
    LET a == Len(s.heap) + 1
        afterData(r3) ==
            IF r3.thrown THEN r3
            ELSE Unowned(s, Return([r3 EXCEPT !.heap[a].data = Bytes(r3.ret)], Ref(a)),
                         "TC_BLOCKDATA")
        afterSize(r2) == IF r2.thrown THEN r2 ELSE afterData(read(r2, r2.ret))
        afterTypeCode(r1) ==
            IF r1.thrown THEN r1
            ELSE IF r1.ret # TC_BLOCKDATA THEN Throw(r1, "Invalid TC_BLOCKDATA type code")
            ELSE afterSize(readByte(newHandle(new(r1, NewBlockData), a)))
    IN afterTypeCode(readByte(s))

\* The size is read with readByte, a signed byte.
readTC_BLOCKDATA(s) ==
    LET a == Len(s.heap) + 1
        afterData(r3) ==
            IF r3.thrown THEN r3
            ELSE Unowned(s, Return([r3 EXCEPT !.heap[a].data = Bytes(r3.ret)], Ref(a)),
                         "TC_BLOCKDATA")
        afterSize(r2) == IF r2.thrown THEN r2 ELSE afterData(read(r2, r2.ret))
        afterTypeCode(r1) ==
            IF r1.thrown THEN r1
            ELSE IF r1.ret # TC_BLOCKDATA THEN Throw(r1, "Invalid TC_BLOCKDATA type code")
            ELSE afterSize(readByte(new(r1, NewBlockData)))
    IN afterTypeCode(readByte(s))

readTC_BLOCKDATALONG(s) ==
    LET a == Len(s.heap) + 1
        afterData(r3) ==
            IF r3.thrown THEN r3
            ELSE Unowned(s, Return([r3 EXCEPT !.heap[a].data = Bytes(r3.ret)], Ref(a)),
                         "TC_BLOCKDATALONG")
        afterSize(r2) == IF r2.thrown THEN r2 ELSE afterData(read(r2, r2.ret))
        afterTypeCode(r1) ==
            IF r1.thrown THEN r1
            ELSE IF r1.ret # TC_BLOCKDATALONG
                 THEN Throw(r1, "Invalid TC_BLOCKDATALONG type code")
                 ELSE afterSize(readInt(new(r1, NewBlockDataLong)))
    IN afterTypeCode(readByte(s))

readNewString(s) ==
    LET switch(p) ==
            IF p.thrown THEN p
            ELSE CASE p.ret = TC_STRING -> this("readTC_STRING", p, Undefined)
                   [] p.ret = TC_LONGSTRING -> this("readTC_LONGSTRING", p, Undefined)
                   [] p.ret = TC_REFERENCE -> this("readPrevObject", p, Undefined)
                   [] OTHER -> Throw(p, "Unsupported newString type code")
    IN switch(peek(s))

----------------------------------------------------------------------------
(* Class descriptors' field descriptors.                                   *)

\* String.fromCharCode(n): the code unit n modulo 2^16.
fromCharCode(n) == Str(<<IF n < 0 THEN n + 65536 ELSE n>>)

IsObjectDesc(typeCode) == typeCode.s = <<91>> \/ typeCode.s = <<76>>

readFieldDesc(s) ==
    LET afterClassName1(typeCode, name, r3) ==
            IF r3.thrown THEN r3
            ELSE Return(r3, [typeCode |-> typeCode, name |-> name, className1 |-> r3.ret])
        afterName(typeCode, r2) ==
            IF r2.thrown THEN r2
            ELSE afterClassName1(typeCode, Str(r2.ret),
                                 IF IsObjectDesc(typeCode)
                                 THEN this("readNewString", r2, Undefined)
                                 ELSE Return(r2, Undefined))
        afterTypeCode(r1) ==
            IF r1.thrown THEN r1 ELSE afterName(fromCharCode(r1.ret), readUTF(r1))
    IN afterTypeCode(readByte(s))

RECURSIVE readFieldsLoop(_, _, _, _)
readFieldsLoop(s, count, i, fields) ==
    LET afterField(r) == readFieldsLoop(r, count, i + 1, Append(fields, r.ret))
    IN IF s.thrown THEN s
       ELSE IF ~(i < count) THEN Return(s, fields)
       ELSE afterField(this("readFieldDesc", s, Undefined))

\* The count is read with readShort, a signed 16-bit number.
readFields(s) ==
    LET afterCount(r1) == IF r1.thrown THEN r1 ELSE readFieldsLoop(r1, r1.ret, 0, <<>>)
    IN afterCount(readShort(s))

----------------------------------------------------------------------------
(* The grammar: the readers that call one another.                         *)

RECURSIVE readValuesLoop(_, _, _)
RECURSIVE readClassAnnotationLoop(_, _, _)
RECURSIVE readNewArrayLoop(_, _, _, _)
RECURSIVE readClassDataLoop(_, _, _)

\* readContentElement with a case for TC_NULL.
readContentElement_nullAccepted(s) ==
    LET switch(p) ==
            IF p.thrown THEN p
            ELSE CASE p.ret = TC_OBJECT -> this("readNewObject", p, Undefined)
                   [] p.ret = TC_STRING -> this("readNewString", p, Undefined)
                   [] p.ret = TC_BLOCKDATA -> this("readTC_BLOCKDATA", p, Undefined)
                   [] p.ret = TC_BLOCKDATALONG -> this("readTC_BLOCKDATALONG", p, Undefined)
                   [] p.ret = TC_LONGSTRING -> this("readNewString", p, Undefined)
                   [] p.ret = TC_REFERENCE -> this("readPrevObject", p, Undefined)
                   [] p.ret = TC_NULL -> readNullReference(p)
                   [] OTHER -> Throw(p, "Unsupported type code")
    IN switch(peek(s))

readContentElement(s) ==
    LET switch(p) ==
            IF p.thrown THEN p
            ELSE CASE p.ret = TC_OBJECT -> this("readNewObject", p, Undefined)
                   [] p.ret = TC_STRING -> this("readNewString", p, Undefined)
                   [] p.ret = TC_BLOCKDATA -> this("readTC_BLOCKDATA", p, Undefined)
                   [] p.ret = TC_BLOCKDATALONG -> this("readTC_BLOCKDATALONG", p, Undefined)
                   [] p.ret = TC_LONGSTRING -> this("readNewString", p, Undefined)
                   [] p.ret = TC_REFERENCE -> this("readPrevObject", p, Undefined)
                   [] OTHER -> Throw(p, "Unsupported type code")
    IN switch(peek(s))

\* The characters of "__proto__".
ProtoName == <<95, 95, 112, 114, 111, 116, 111, 95, 95>>

\* values[name] = value on a JavaScript object: an existing key keeps its
\* place, a new key is added last.  values is a plain object (values = {}),
\* on which the key __proto__ is the accessor inherited from
\* Object.prototype: assigning to it adds no property (a primitive value is
\* dropped; an object would become the prototype of values).
SetValue(values, name, v) ==
    IF name = ProtoName THEN values
    ELSE IF \E i \in 1..Len(values) : values[i].name = name
    THEN [i \in 1..Len(values) |->
             IF values[i].name = name THEN [name |-> name, value |-> v] ELSE values[i]]
    ELSE Append(values, [name |-> name, value |-> v])

\* for (const field of classDesc.info.fields)
\*     classDesc.classData.values[field.name] = this.readFieldValue(field.typeCode)
\* Each value read is logged with the index of its field and the cursor
\* before and after it.
readValuesLoop(s, a, i) ==
    LET field == s.heap[a].info.fields[i]
        afterValue(r) ==
            IF r.thrown THEN r
            ELSE readValuesLoop(
                     Log([r EXCEPT !.heap[a].classData.values =
                                       SetValue(@, field.name.s, r.ret)],
                         Ev("field", a, i, s.pos, r.pos, <<r.ret>>)),
                     a, i + 1)
    IN IF s.thrown THEN s
       ELSE IF i > Len(s.heap[a].info.fields) THEN s
       ELSE afterValue(this("readFieldValue", s, field.typeCode))

readValues(s, a) == readValuesLoop(s, a, 1)

\* The value read, as a JavaScript value.
Prim(r, v) == IF r.thrown THEN r ELSE Return(r, v)

readFieldValue(s, typeCode) ==
    IF s.thrown THEN s
    ELSE CASE typeCode.s = <<66>> -> LET r == readByte(s) IN Prim(r, Num(r.ret))
           [] typeCode.s = <<67>> -> LET r == readChar(s) IN Prim(r, Str(r.ret))
           [] typeCode.s = <<68>> -> LET r == readDouble(s) IN Prim(r, Double(r.ret))
           [] typeCode.s = <<70>> -> LET r == readFloat(s) IN Prim(r, Float(r.ret))
           [] typeCode.s = <<73>> -> LET r == readInt(s) IN Prim(r, Num(r.ret))
           [] typeCode.s = <<74>> -> LET r == readLong(s) IN Prim(r, BigInt(r.ret))
           [] typeCode.s = <<83>> -> LET r == readShort(s) IN Prim(r, Num(r.ret))
           [] typeCode.s = <<90>> -> LET r == readBoolean(s) IN Prim(r, Bool(r.ret))
           [] typeCode.s = <<91>> -> this("readArrayFieldValue", s, Undefined)
           [] typeCode.s = <<76>> -> this("readObjectFieldValue", s, Undefined)
           [] OTHER -> Throw(s, "Unsupported field type")

readArrayFieldValue(s) ==
    LET switch(p) ==
            IF p.thrown THEN p
            ELSE CASE p.ret = TC_NULL -> readNullReference(p)
                   [] p.ret = TC_ARRAY -> this("readNewArray", p, Undefined)
                   [] p.ret = TC_REFERENCE -> this("readPrevObject", p, Undefined)
                   [] OTHER -> Throw(p, "Unsupported readArrayFieldValue type code")
    IN switch(peek(s))

\* readObjectFieldValue with a case for TC_ARRAY.
readObjectFieldValue_arrayAccepted(s) ==
    LET switch(p) ==
            IF p.thrown THEN p
            ELSE CASE p.ret = TC_NULL -> readNullReference(p)
                   [] p.ret = TC_OBJECT -> this("readNewObject", p, Undefined)
                   [] p.ret = TC_STRING -> this("readTC_STRING", p, Undefined)
                   [] p.ret = TC_REFERENCE -> this("readPrevObject", p, Undefined)
                   [] p.ret = TC_ENUM -> this("readNewEnum", p, Undefined)
                   [] p.ret = TC_ARRAY -> this("readNewArray", p, Undefined)
                   [] OTHER -> Throw(p, "Unsupported readObjectFieldValue type code")
    IN switch(peek(s))

readObjectFieldValue(s) ==
    LET switch(p) ==
            IF p.thrown THEN p
            ELSE CASE p.ret = TC_NULL -> readNullReference(p)
                   [] p.ret = TC_OBJECT -> this("readNewObject", p, Undefined)
                   [] p.ret = TC_STRING -> this("readTC_STRING", p, Undefined)
                   [] p.ret = TC_REFERENCE -> this("readPrevObject", p, Undefined)
                   [] p.ret = TC_ENUM -> this("readNewEnum", p, Undefined)
                   [] OTHER -> Throw(p, "Unsupported readObjectFieldValue type code")
    IN switch(peek(s))

readClassDesc(s) ==
    LET switch(p) ==
            IF p.thrown THEN p
            ELSE CASE p.ret = TC_NULL -> readNullReference(p)
                   [] p.ret = TC_CLASSDESC -> this("readNewClassDesc", p, Undefined)
                   [] p.ret = TC_PROXYCLASSDESC -> this("readNewClassDesc", p, Undefined)
                   [] p.ret = TC_REFERENCE -> this("readPrevObject", p, Undefined)
                   [] OTHER -> Throw(p, "Unsupported classDesc type code")
    IN switch(peek(s))

readNewClassDesc(s) ==
    LET switch(p) ==
            IF p.thrown THEN p
            ELSE IF p.ret = TC_CLASSDESC THEN this("readTC_CLASSDESC", p, Undefined)
            ELSE Throw(p, "Unsupported newClassDesc type code")
    IN switch(peek(s))

\* while (peek() !== TC_ENDBLOCKDATA) annotations.push(readContentElement())
\* start is the cursor at which the region began; each element read is
\* logged with the cursor before and after it.
readClassAnnotationLoop(s, start, annotations) ==
    LET afterElement(from, r) ==
            IF r.thrown THEN r
            ELSE readClassAnnotationLoop(
                     Log(r, Ev("element", start, Len(annotations) + 1, from, r.pos,
                               <<r.ret>>)),
                     start, Append(annotations, r.ret))
        afterPeek(p) ==
            IF p.thrown THEN p
            ELSE IF p.ret = TC_ENDBLOCKDATA THEN Return(p, annotations)
            ELSE afterElement(p.pos, this("readContentElement", p, Undefined))
    IN afterPeek(peek(s))

\* The region is read without consuming the byte that ends it.
readClassAnnotation_noSkip(s) ==
    LET afterLoop(r1) ==
            IF r1.thrown THEN r1
            ELSE Log(r1, Ev("region", 0, Len(r1.ret), s.pos, r1.pos, r1.ret))
    IN afterLoop(readClassAnnotationLoop(s, s.pos, <<>>))

readClassAnnotation(s) ==
    LET afterSkip(annotations, r2) ==
            Log(Return(r2, annotations),
                Ev("region", 0, Len(annotations), s.pos, r2.pos, annotations))
        afterLoop(r1) == IF r1.thrown THEN r1 ELSE afterSkip(r1.ret, skip(r1, 1))
    IN afterLoop(readClassAnnotationLoop(s, s.pos, <<>>))

readClassDescInfo(s) ==
    LET afterSuperClass(flags, fields, annotation, r4) ==
            IF r4.thrown THEN r4
            ELSE Return(r4, [NewJavaClassDescInfo EXCEPT !.flags = flags,
                                                         !.fields = fields,
                                                         !.annotation = annotation,
                                                         !.superClass = r4.ret])
        afterAnnotation(flags, fields, r3) ==
            IF r3.thrown THEN r3
            ELSE afterSuperClass(flags, fields, r3.ret,
                                 this("readClassDesc", r3, Undefined))
        afterFields(flags, r2) ==
            IF r2.thrown THEN r2
            ELSE afterAnnotation(flags, r2.ret, this("readClassAnnotation", r2, Undefined))
        afterFlags(r1) ==
            IF r1.thrown THEN r1
            ELSE afterFields(Num(r1.ret), this("readFields", r1, Undefined))
    IN afterFlags(readByte(s))

\* The descriptor is given its handle when its info has been read.
readTC_CLASSDESC_handleAfterInfo(s) ==
    LET a == Len(s.heap) + 1
        afterInfo(r6) ==
            IF r6.thrown THEN r6
            ELSE Node(s, Return(newHandle([r6 EXCEPT !.heap[a].info = r6.ret], a),
                                Ref(a)),
                      a)
        afterSerialVersionUID(r4) ==
            IF r4.thrown THEN r4
            ELSE afterInfo(this("readClassDescInfo",
                                [r4 EXCEPT !.heap[a].serialVersionUID = BigInt(r4.ret)],
                                Undefined))
        afterClassName(r2) ==
            IF r2.thrown THEN r2
            ELSE afterSerialVersionUID(
                     readLong([r2 EXCEPT !.heap[a].className = Str(r2.ret)]))
        afterTypeCode(r1) ==
            IF r1.thrown THEN r1
            ELSE IF r1.ret # TC_CLASSDESC THEN Throw(r1, "Invalid TC_CLASSDESC type code")
            ELSE afterClassName(readUTF(new(r1, NewJavaClassDesc)))
    IN afterTypeCode(readByte(s))

readTC_CLASSDESC(s) ==
    LET a == Len(s.heap) + 1
        afterInfo(r6) ==
            IF r6.thrown THEN r6
            ELSE Node(s, Return([r6 EXCEPT !.heap[a].info = r6.ret], Ref(a)), a)
        afterSerialVersionUID(r4) ==
            IF r4.thrown THEN r4
            ELSE afterInfo(this("readClassDescInfo",
                                newHandle([r4 EXCEPT !.heap[a].serialVersionUID =
                                                         BigInt(r4.ret)], a),
                                Undefined))
        afterClassName(r2) ==
            IF r2.thrown THEN r2
            ELSE afterSerialVersionUID(
                     readLong([r2 EXCEPT !.heap[a].className = Str(r2.ret)]))
        afterTypeCode(r1) ==
            IF r1.thrown THEN r1
            ELSE IF r1.ret # TC_CLASSDESC THEN Throw(r1, "Invalid TC_CLASSDESC type code")
            ELSE afterClassName(readUTF(new(r1, NewJavaClassDesc)))
    IN afterTypeCode(readByte(s))

\* array.description.className.value[1]: the second character of the class
\* name, undefined when the name is shorter.  Only a JavaClassDesc has a
\* className; on any other object the property access throws.
elementTypeCode(c) ==
    IF Len(c.className.s) >= 2 THEN Str(<<c.className.s[2]>>) ELSE Undefined

\* for (let i = 0; i < size; i++)
\*     array.values.push(this.readFieldValue(array.description.className.value[1]))
readNewArrayLoop(s, a, size, i) ==
    LET c == s.heap[s.heap[a].description.n]
        afterValue(r) ==
            IF r.thrown THEN r
            ELSE readNewArrayLoop([r EXCEPT !.heap[a].values = Append(@, r.ret)],
                                  a, size, i + 1)
    IN IF s.thrown THEN s
       ELSE IF ~(i < size) THEN s
       ELSE IF c.kind # "JavaClassDesc" THEN Throw(s, "TypeError")
       ELSE afterValue(this("readFieldValue", s, elementTypeCode(c)))

\* The array returned is logged with the size read, the character its
\* elements were read by (0 when it has no description) and the cursor.
readNewArray(s) ==
    LET a == Len(s.heap) + 1
        afterLoop(size, r5) ==
            IF r5.thrown THEN r5
            ELSE Log(r5, Ev("array", a,
                            IF Truthy(r5.heap[a].description)
                            THEN r5.heap[r5.heap[a].description.n].className.s[2]
                            ELSE 0,
                            size, r5.pos, <<r5.heap[a]>>))
        afterSize(r4) ==
            IF r4.thrown THEN r4
            ELSE afterLoop(r4.ret, IF Truthy(r4.heap[a].description)
                                   THEN readNewArrayLoop(r4, a, r4.ret, 0)
                                   ELSE r4)
        afterDescription(r2) ==
            IF r2.thrown THEN r2
            ELSE afterSize(readInt(newHandle([r2 EXCEPT !.heap[a].description = r2.ret],
                                             a)))
        afterTypeCode(r1) ==
            IF r1.thrown THEN r1
            ELSE IF r1.ret # TC_ARRAY THEN Throw(r1, "Invalid TC_ARRAY type code")
            ELSE Node(s, Return(afterDescription(this("readClassDesc",
                                                      new(r1, NewJavaArray), Undefined)),
                                Ref(a)),
                      a)
    IN afterTypeCode(readByte(s))

\* classDesc.hasFlag(flag): (this.info.flags & flag) === flag, for a flag
\* of one bit and the flags read as a signed byte.
hasFlag(c, flag) ==
    LET byte == IF c.info.flags.n < 0 THEN c.info.flags.n + 256 ELSE c.info.flags.n
    IN (byte \div flag) % 2 = 1

\* while (classDesc) { classHierarchy.push(classDesc);
\*                     classDesc = classDesc.info?.superClass || null }
\* The loop is followed for at most turns turns.
RECURSIVE classHierarchyWhile(_, _, _)
classHierarchyWhile(h, classDesc, turns) ==
    IF ~Truthy(classDesc) \/ turns = 0 THEN <<>>
    ELSE <<classDesc.n>> \o classHierarchyWhile(h, IF h[classDesc.n].info.defined
                                                   THEN h[classDesc.n].info.superClass
                                                   ELSE Undefined,
                                                turns - 1)

\* The array the loop builds; it is followed for one turn more than there
\* are objects, which it takes only when the super classes form a cycle.
classHierarchy(h, classDesc) == classHierarchyWhile(h, classDesc, Len(h) + 1)

\* On a cycle of super classes the loop never ends.
loopsForever(h, classDesc) == Len(classHierarchy(h, classDesc)) > Len(h)

reverse(q) == [i \in 1..Len(q) |-> q[Len(q) + 1 - i]]

\* Whether readClassData reads the declared fields of a level.
readsValues(c) == hasFlag(c, SC_SERIALIZABLE)

\* Whether readClassData throws at a level: externalContents of protocol
\* version 1.
isExternalContents(c) == hasFlag(c, SC_EXTERNALIZABLE) /\ ~hasFlag(c, SC_BLOCKDATA)

\* hasObjectAnnotation without the test of SC_WRITE_METHOD.
hasObjectAnnotation_anySerializable(c) ==
    \/ hasFlag(c, SC_SERIALIZABLE)
    \/ hasFlag(c, SC_EXTERNALIZABLE) /\ hasFlag(c, SC_BLOCKDATA)

\* The local hasObjectAnnotation after both tests of a level.
hasObjectAnnotation(c) ==
    \/ hasFlag(c, SC_SERIALIZABLE) /\ hasFlag(c, SC_WRITE_METHOD)
    \/ hasFlag(c, SC_EXTERNALIZABLE) /\ hasFlag(c, SC_BLOCKDATA)

\* for (const classDescription of classHierarchy) { ... }
\* hasFlag is a method of JavaClassDesc: on another object the call throws,
\* and so does it on a descriptor whose info is not set.
readClassDataLoop(s, hierarchy, i) ==
    LET a == hierarchy[i]
        c == s.heap[a]
        \* if (SC_SERIALIZABLE) this.readValues(classDescription)
        afterValues(rv) == Log(rv, Ev("values", a, 0, 0, rv.pos, <<rv.heap[a]>>))
        values(r0) == IF readsValues(c) THEN afterValues(readValues(r0, a)) ELSE r0
        \* if (SC_EXTERNALIZABLE) if (!SC_BLOCKDATA) throw
        externalContents(r1) ==
            IF isExternalContents(c)
            THEN Throw(Log(r1, Ev("externalContents", a, 0, 0, r1.pos, <<>>)),
                       "Cannot parse externalContents")
            ELSE r1
        \* if (hasObjectAnnotation)
        \*     classDescription.classData.annotation = this.readClassAnnotation()
        afterAnnotation(r2, ra) ==
            IF ra.thrown THEN ra
            ELSE Log([ra EXCEPT !.heap[a].classData.annotation = ra.ret],
                     Ev("annotation", a, 0, r2.pos, ra.pos,
                        <<[ra.heap[a] EXCEPT !.classData.annotation = ra.ret]>>))
        annotation(r2) ==
            IF hasObjectAnnotation(c)
            THEN afterAnnotation(r2, this("readClassAnnotation", r2, Undefined))
            ELSE r2
        levelDone(r3) == Log(r3, Ev("levelDone", a, 0, 0, r3.pos, <<>>))
        level(r0) == levelDone(annotation(externalContents(values(r0))))
    IN IF s.thrown THEN s
       ELSE IF i > Len(hierarchy) THEN s
       ELSE IF c.kind # "JavaClassDesc" \/ ~c.info.defined
            THEN Throw(Log(s, Ev("level", a, 0, 0, s.pos, <<>>)), "TypeError")
            ELSE readClassDataLoop(level(Log(s, Ev("level", a, 0, 0, s.pos, <<>>))),
                                   hierarchy, i + 1)

\* readClassData walking the hierarchy as it was collected, the class of
\* the object first.
readClassData_noReverse(s, classDesc) ==
    IF s.thrown THEN s
    ELSE IF loopsForever(s.heap, classDesc) THEN Throw(s, "RangeError")
    ELSE readClassDataLoop(s, classHierarchy(s.heap, classDesc), 1)

\* A loop that never ends pushes to the array until the engine gives up:
\* RangeError (invalid array length).
readClassData(s, classDesc) ==
    IF s.thrown THEN s
    ELSE IF loopsForever(s.heap, classDesc) THEN Throw(s, "RangeError")
    ELSE readClassDataLoop(s, reverse(classHierarchy(s.heap, classDesc)), 1)

\* The object is given its handle before its classDesc is read.
readNewObject_handleFirst(s) ==
    LET a == Len(s.heap) + 1
        afterHandle(r4) ==
            IF Truthy(r4.heap[a].description)
            THEN this("readClassData", r4, r4.heap[a].description)
            ELSE r4
        afterDescription(r2) ==
            IF r2.thrown THEN r2
            ELSE afterHandle([r2 EXCEPT !.heap[a].description = r2.ret])
        afterTypeCode(r1) ==
            IF r1.thrown THEN r1
            ELSE IF r1.ret # TC_OBJECT THEN Throw(r1, "Invalid TC_OBJECT type code")
            ELSE Node(s, Return(afterDescription(this("readClassDesc",
                                                      newHandle(new(r1, NewJavaObject), a),
                                                      Undefined)),
                                Ref(a)),
                      a)
    IN afterTypeCode(readByte(s))

readNewObject(s) ==
    LET a == Len(s.heap) + 1
        afterHandle(r4) ==
            IF Truthy(r4.heap[a].description)
            THEN this("readClassData", r4, r4.heap[a].description)
            ELSE r4
        afterDescription(r2) ==
            IF r2.thrown THEN r2
            ELSE afterHandle(newHandle([r2 EXCEPT !.heap[a].description = r2.ret], a))
        afterTypeCode(r1) ==
            IF r1.thrown THEN r1
            ELSE IF r1.ret # TC_OBJECT THEN Throw(r1, "Invalid TC_OBJECT type code")
            ELSE Node(s, Return(afterDescription(this("readClassDesc",
                                                      new(r1, NewJavaObject), Undefined)),
                                Ref(a)),
                      a)
    IN afterTypeCode(readByte(s))

\* The enum is given its handle after its constant name is read.
readNewEnum_handleAfterConstant(s) ==
    LET a == Len(s.heap) + 1
        afterConstant(r4) ==
            IF r4.thrown THEN r4
            ELSE Node(s, Return(newHandle([r4 EXCEPT !.heap[a].constant = r4.ret], a),
                                Ref(a)),
                      a)
        afterDescription(r2) ==
            IF r2.thrown THEN r2
            ELSE afterConstant(this("readNewString",
                                    [r2 EXCEPT !.heap[a].description = r2.ret],
                                    Undefined))
        afterTypeCode(r1) ==
            IF r1.thrown THEN r1
            ELSE IF r1.ret # TC_ENUM THEN Throw(r1, "Invalid TC_ENUM type code")
            ELSE afterDescription(this("readClassDesc", new(r1, NewJavaEnum), Undefined))
    IN afterTypeCode(readByte(s))

readNewEnum(s) ==
    LET a == Len(s.heap) + 1
        afterConstant(r4) ==
            IF r4.thrown THEN r4
            ELSE Node(s, Return([r4 EXCEPT !.heap[a].constant = r4.ret], Ref(a)), a)
        afterDescription(r2) ==
            IF r2.thrown THEN r2
            ELSE afterConstant(this("readNewString",
                                    newHandle([r2 EXCEPT !.heap[a].description = r2.ret],
                                              a),
                                    Undefined))
        afterTypeCode(r1) ==
            IF r1.thrown THEN r1
            ELSE IF r1.ret # TC_ENUM THEN Throw(r1, "Invalid TC_ENUM type code")
            ELSE afterDescription(this("readClassDesc", new(r1, NewJavaEnum), Undefined))
    IN afterTypeCode(readByte(s))

this(method, s, arg) ==
    CASE method = "readContentElement" -> readContentElement(s)
      [] method = "readFieldValue" -> readFieldValue(s, arg)
      [] method = "readArrayFieldValue" -> readArrayFieldValue(s)
      [] method = "readObjectFieldValue" -> readObjectFieldValue(s)
      [] method = "readClassDesc" -> readClassDesc(s)
      [] method = "readNewClassDesc" -> readNewClassDesc(s)
      [] method = "readClassDescInfo" -> readClassDescInfo(s)
      [] method = "readFields" -> readFields(s)
      [] method = "readFieldDesc" -> readFieldDesc(s)
      [] method = "readClassAnnotation" -> readClassAnnotation(s)
      [] method = "readNewArray" -> readNewArray(s)
      [] method = "readNewObject" -> readNewObject(s)
      [] method = "readClassData" -> readClassData(s, arg)
      [] method = "readNewString" -> readNewString(s)
      [] method = "readNewEnum" -> readNewEnum(s)
      [] method = "readPrevObject" -> readPrevObject(s)
      [] method = "readTC_CLASSDESC" -> readTC_CLASSDESC(s)
      [] method = "readTC_STRING" -> readTC_STRING(s)
      [] method = "readTC_BLOCKDATA" -> readTC_BLOCKDATA(s)
      [] method = "readTC_BLOCKDATALONG" -> readTC_BLOCKDATALONG(s)
      [] method = "readTC_LONGSTRING" -> readTC_LONGSTRING(s)

----------------------------------------------------------------------------
(* The public operations.                                                  *)

\* The constructor without its test of the version.
constructor_anyVersion(s) ==
    LET afterMagic(r1) ==
            IF r1.thrown THEN r1
            ELSE IF r1.ret # STREAM_MAGIC THEN Throw(r1, "Bad magic")
            ELSE readUInt16BE(r1)
    IN afterMagic(read(s, 2))

constructor(s) ==
    LET afterVersion(r2) ==
            IF r2.thrown THEN r2
            ELSE IF r2.ret # STREAM_VERSION THEN Throw(r2, "Bad version")
            ELSE r2
        afterMagic(r1) ==
            IF r1.thrown THEN r1
            ELSE IF r1.ret # STREAM_MAGIC THEN Throw(r1, "Bad magic")
            ELSE afterVersion(readUInt16BE(r1))
    IN afterMagic(read(s, 2))

----------------
(* Input streams.  A stream is written as the Java serializer writes it:   *)
(* the operators below are the encodings of the stream protocol.           *)

U16(n) == <<n \div 256, n % 256>>
I32(n) == <<n \div 16777216, (n \div 65536) % 256, (n \div 256) % 256, n % 256>>
I64(n) == <<0, 0, 0, 0>> \o I32(n)
Utf(u) == U16(Len(u)) \o u

Header == STREAM_MAGIC \o U16(STREAM_VERSION)

\* Names: "C" "D" "E" "F" "G" "X" "A" "hi" "x" "o" "s" "a" "[B" "LC;"
NameC == <<67>>
NameD == <<68>>
NameE == <<69>>
NameF == <<70>>
NameG == <<71>>
NameX == <<88>>
NameA == <<65>>
NameHi == <<104, 105>>
NameLowerX == <<120>>
NameO == <<111>>
NameS == <<115>>
NameLowerA == <<97>>
NameH == <<72>>
NameK == <<75>>
NameM == <<77>>
NameP == <<80>>
NameV == <<86>>
NameT == <<84>>
NameByteArray == <<91, 66>>
NameLC == <<76, 67, 59>>

EncString(u) == <<TC_STRING>> \o Utf(u)
EncLongString(u) == <<TC_LONGSTRING>> \o I64(Len(u)) \o u
EncBlock(b) == <<TC_BLOCKDATA, Len(b)>> \o b
EncBlockLong(b) == <<TC_BLOCKDATALONG>> \o I32(Len(b)) \o b
\* A reference to the k-th handle of the stream, counted from 0.
EncRef(k) == <<TC_REFERENCE>> \o I32(baseWireHandle + k)
EncRefNegative == <<TC_REFERENCE, 255, 255, 255, 255>>
EncPrimField(typeCode, name) == <<typeCode>> \o Utf(name)
EncObjField(typeCode, name, className1) == <<typeCode>> \o Utf(name) \o className1
EncClassDesc(name, uid, flags, count, fields, annotation, super) ==
    <<TC_CLASSDESC>> \o Utf(name) \o I64(uid) \o <<flags>> \o U16(count) \o fields
        \o annotation \o <<TC_ENDBLOCKDATA>> \o super
EncObject(desc, data) == <<TC_OBJECT>> \o desc \o data
EncArray(desc, size, data) == <<TC_ARRAY>> \o desc \o I32(size) \o data
EncEnum(desc, constant) == <<TC_ENUM>> \o desc \o constant
EncNull == <<TC_NULL>>
EncEnd == <<TC_ENDBLOCKDATA>>

\* class C { int x; } with the given flags, no super class.
DescC(flags) ==
    EncClassDesc(NameC, 1, flags, 1, EncPrimField(73, NameLowerX), <<>>, EncNull)

\* class D extends <super> { Object o; } with a writeObject method.
DescD(super) ==
    EncClassDesc(NameD, 2, SC_SERIALIZABLE + SC_WRITE_METHOD, 1,
                 EncObjField(76, NameO, EncString(NameLC)), <<>>, super)

\* class X { int x; }, Externalizable, with a class annotation.
DescX(flags) ==
    EncClassDesc(NameX, 3, flags, 1, EncPrimField(73, NameLowerX),
                 EncBlock(<<TC_ENDBLOCKDATA>>), EncNull)

\* class F { Object s; byte[] a; }
DescF ==
    EncClassDesc(NameF, 4, SC_SERIALIZABLE, 2,
                 EncObjField(76, NameS, EncString(NameLC))
                     \o EncObjField(91, NameLowerA, EncString(NameByteArray)),
                 <<>>, EncNull)

DescByteArray == EncClassDesc(NameByteArray, 5, SC_SERIALIZABLE, 0, <<>>, <<>>, EncNull)
DescE == EncClassDesc(NameE, 6, SC_SERIALIZABLE + SC_ENUM, 0, <<>>, <<>>, EncNull)

\* class P { int x; int __proto__; }
DescP ==
    EncClassDesc(NameP, 8, SC_SERIALIZABLE, 2,
                 EncPrimField(73, NameLowerX) \o EncPrimField(73, ProtoName),
                 <<>>, EncNull)

\* class T { byte b; char c; double d; float f; long j; short s; boolean z; }
DescT ==
    EncClassDesc(NameT, 9, SC_SERIALIZABLE, 7,
                 EncPrimField(66, <<98>>) \o EncPrimField(67, <<99>>)
                     \o EncPrimField(68, <<100>>) \o EncPrimField(70, <<102>>)
                     \o EncPrimField(74, <<106>>) \o EncPrimField(83, <<115>>)
                     \o EncPrimField(90, <<122>>),
                 <<>>, EncNull)

\* The contents a stream of the model is made of.
ObjectsOfC ==
    { EncObject(DescC(SC_SERIALIZABLE), I32(1)),
      EncObject(EncRef(0), I32(2)),
      EncObject(DescC(SC_SERIALIZABLE + SC_WRITE_METHOD),
                I32(1) \o EncBlock(<<222, 173>>) \o EncEnd),
      EncObject(DescC(0), <<>>),
      EncObject(DescC(SC_SERIALIZABLE + SC_EXTERNALIZABLE), I32(1)),
      EncObject(DescC(SC_SERIALIZABLE + SC_WRITE_METHOD + SC_EXTERNALIZABLE
                      + SC_BLOCKDATA), I32(1) \o EncEnd) }

ObjectsOfX ==
    { EncObject(DescX(SC_EXTERNALIZABLE + SC_BLOCKDATA),
                EncBlock(<<0, 0, 0, 7>>) \o EncEnd),
      EncObject(DescX(SC_EXTERNALIZABLE), I32(1)) }

ObjectsOfD ==
    { \* the super class is new; the field holds an object of class C,
      \* named by reference
      EncObject(DescD(DescC(SC_SERIALIZABLE)),
                I32(3) \o EncObject(EncRef(2), I32(4)) \o EncBlock(<<1>>) \o EncEnd),
      \* the field holds an object of the enclosing object's own class D
      EncObject(DescD(DescC(SC_SERIALIZABLE)),
                I32(3) \o EncObject(EncRef(0), I32(5) \o EncNull \o EncEnd) \o EncEnd),
      \* the super class is a reference; the field refers to the object
      EncObject(DescD(EncRef(0)), I32(3) \o EncRef(4) \o EncEnd) }

ObjectsOfF ==
    { EncObject(DescF, EncString(NameHi) \o EncArray(DescByteArray, 2, <<1, 2>>)),
      EncObject(DescF, EncEnum(DescE, EncString(NameA)) \o EncNull),
      EncObject(DescF, EncRef(99) \o EncNull),
      EncObject(EncRef(0), EncNull \o EncArray(EncRef(5), 2, <<3, 4>>)),
      EncObject(DescF, EncNull \o EncArray(EncNull, 1, <<>>)) }

ObjectsOfP == { EncObject(DescP, I32(1) \o I32(2)) }

ObjectsOfT ==
    { EncObject(DescT, <<255>> \o U16(65) \o I64(1) \o I32(2) \o I64(3) \o <<255, 254>>
                           \o <<1>>) }

\* class G { Object o; }: the class name of the field's type is a reference.
ObjectsOfG ==
    { EncObject(EncClassDesc(NameG, 7, SC_SERIALIZABLE, 1,
                             EncObjField(76, NameO, EncRef(1)), <<>>, EncNull),
                EncNull) }

Palette ==
    { EncString(NameHi), EncLongString(NameHi),
      EncBlock(<<222, 173>>), EncBlockLong(<<190>>),
      EncRef(0), EncRef(1), EncRef(2), EncRefNegative,
      <<TC_REFERENCE>> \o I32(baseWireHandle - 1) }
    \cup ObjectsOfC \cup ObjectsOfX \cup ObjectsOfD \cup ObjectsOfF \cup ObjectsOfG
    \cup ObjectsOfP \cup ObjectsOfT

MaxContents == 2

RECURSIVE Concat(_)
Concat(q) == IF Len(q) = 0 THEN <<>> ELSE Head(q) \o Concat(Tail(q))

Contents == UNION {[1..k -> Palette] : k \in 0..MaxContents}

\* The header followed by contents.
ContentInputs == {Header \o Concat(q) : q \in Contents}

\* Every four bytes made of the header's bytes and a wrong version, and the
\* header cut short.
HeaderBytes == {172, 237, 0, 5, 4}
HeaderInputs ==
    {<<a, b, c, d>> : a \in HeaderBytes, b \in HeaderBytes,
                      c \in HeaderBytes, d \in HeaderBytes}
    \cup {SubSeq(Header, 1, k) : k \in 0..3}
    \cup {<<a, b, c, d>> \o EncString(NameHi) : a \in {172}, b \in {237, 0},
                                                  c \in {0}, d \in {5, 4}}

\* Every byte as the tag of a top-level content, first or after a string.
TagInputs ==
    {Header \o <<b>> : b \in 0..255}
    \cup {Header \o EncString(NameHi) \o <<b>> \o NameHi : b \in 0..255}

\* A stream that ends early.
Prefixes(q) == {SubSeq(q, 1, k) : k \in 0..Len(q)}
TruncatedInputs ==
    Prefixes(Header \o EncObject(DescF, EncString(NameHi)
                                            \o EncArray(DescByteArray, 2, <<1, 2>>)))

\* One TC_BLOCKDATA content for every value of the length byte, followed by
\* as many payload bytes as the length byte says when read as unsigned.
BlockSizeInputs ==
    {Header \o <<TC_BLOCKDATA, b>> \o [i \in 1..b |-> 0] : b \in 0..255}

\* class H { Object o; }
DescH ==
    EncClassDesc(NameH, 10, SC_SERIALIZABLE, 1,
                 EncObjField(76, NameO, EncString(NameLC)), <<>>, EncNull)

\* class K { int x; } whose class annotation holds an object of class K,
\* its descriptor written as a reference to the one being read.
DescK ==
    EncClassDesc(NameK, 11, SC_SERIALIZABLE, 1, EncPrimField(73, NameLowerX),
                 EncObject(EncRef(0), I32(7)), EncNull)

\* Streams of the protocol's grammar: an Object field holding a string, an
\* array or a long string, and an object in the annotation of its own class.
ProtocolInputs ==
    { Header \o EncObject(DescH, EncString(NameHi)),
      Header \o EncObject(DescH, EncArray(DescByteArray, 2, <<1, 2>>)),
      Header \o EncObject(DescH, EncLongString(NameHi)),
      Header \o EncObject(DescK, I32(1)) }

\* What java.io.DataOutputStream writes for a value of a primitive type:
\* writeByte, writeShort and writeChar, writeInt, writeLong (a 64-bit value
\* as its halves <<hi, lo>>) and writeBoolean.
WriteByte(v) == <<v % 256>>
WriteShort(v) == <<(v \div 256) % 256, v % 256>>
WriteInt(v) ==
    <<(v \div 16777216) % 256, (v \div 65536) % 256, (v \div 256) % 256, v % 256>>
WriteLong(hl) == WriteInt(hl[1]) \o WriteInt(hl[2])
WriteBoolean(v) == <<IF v THEN 1 ELSE 0>>

\* The values of each primitive type that the streams of the model hold.
ByteSamples == -128..127
ShortSamples ==
    {-32767 - 1, -32767, -257, -256, -255, -129, -128, -1, 0, 1, 127, 128, 255, 256,
     32767}
IntSamples ==
    {-2147483647 - 1, -2147483647, -16777217, -16777216, -65537, -65536, -32769,
     -32768, -129, -128, -1, 0, 1, 127, 128, 255, 256, 65535, 65536, 16777215,
     16777216, 2147483647}
LongSamples ==
    {<<hi, lo>> : hi \in {-2147483647 - 1, -1, 0, 1, 2147483647},
                  lo \in {-2147483647 - 1, -1, 0, 1, 2147483647}}
CharSamples == {0, 65, 127, 128, 255, 256, 32767, 32768, 55296, 65535}
FloatSamples == {0, 1065353216, -1082130432}
DoubleSamples == {<<0, 0>>, <<1072693248, 0>>, <<-1074790400, 1>>}

\* class V { <typeCode> x; } and an object of it with the bytes of x.
DescV(typeCode) ==
    EncClassDesc(NameV, 12, SC_SERIALIZABLE, 1, EncPrimField(typeCode, NameLowerX),
                 <<>>, EncNull)
PrimitiveInput(typeCode, bytes) == Header \o EncObject(DescV(typeCode), bytes)

PrimitiveInputs ==
    {PrimitiveInput(66, WriteByte(v)) : v \in ByteSamples}
    \cup {PrimitiveInput(83, WriteShort(v)) : v \in ShortSamples}
    \cup {PrimitiveInput(73, WriteInt(v)) : v \in IntSamples}
    \cup {PrimitiveInput(74, WriteLong(v)) : v \in LongSamples}
    \cup {PrimitiveInput(90, WriteBoolean(v)) : v \in BOOLEAN}
    \cup {PrimitiveInput(67, WriteShort(v)) : v \in CharSamples}
    \cup {PrimitiveInput(70, WriteInt(v)) : v \in FloatSamples}
    \cup {PrimitiveInput(68, WriteLong(v)) : v \in DoubleSamples}

\* class M extends C { Object o; } with the string "hi" as class annotation.
DescM ==
    EncClassDesc(NameM, 13, SC_SERIALIZABLE, 1, EncObjField(76, NameO, EncString(NameLC)),
                 EncString(NameHi), DescC(SC_SERIALIZABLE))

\* The class of an array of objects, String[] for one.
NameObjectArray == <<91, 76>>
DescStringArray ==
    EncClassDesc(NameObjectArray, 14, SC_SERIALIZABLE, 0, <<>>, <<>>, EncNull)

\* Streams in which handles are given inside a descriptor and inside the
\* class data of an object.
OrderInputs ==
    { Header \o EncObject(DescM, I32(1) \o EncString(NameA)),
      Header \o EncObject(DescF, EncEnum(DescE, EncLongString(NameHi))
                                    \o EncArray(DescStringArray, 2,
                                                EncString(NameA) \o EncString(NameHi))),
      Header \o EncObject(DescH, EncEnum(DescE, EncRef(1))),
      Header \o EncObject(DescH, EncEnum(DescE, EncRef(2))) }

\* class R, without fields, with the given class annotation and super
\* class.  It is the first node of its stream, so its handle is the first
\* one: EncRef(0) names the first entry of the handle table, EncRef(1) the
\* number newHandle gives to the first node.
NameR == <<82>>
DescR(annotation, super) ==
    EncClassDesc(NameR, 15, SC_SERIALIZABLE, 0, <<>>, annotation, super)

\* An object of class R whose descriptor holds a reference to the
\* descriptor itself, in its class annotation or as its super class.
SelfReferenceInputs ==
    {Header \o EncObject(DescR(EncRef(k), EncNull), <<>>) : k \in 0..1}
    \cup {Header \o EncObject(DescR(<<>>, EncRef(k)), <<>>) : k \in 0..1}

\* An object of class D extends C whose class data holds a reference to
\* the object itself, as the value of its field o or in its annotation.
\* The descriptor of D, the class name of o and the descriptor of C come
\* first: EncRef(3) names the object's entry of the handle table, EncRef(4)
\* the number newHandle gives the object.
OwnReferenceInputs ==
    {Header \o EncObject(DescD(DescC(SC_SERIALIZABLE)), I32(3) \o EncRef(k) \o EncEnd) :
         k \in 3..4}
    \cup {Header \o EncObject(DescD(DescC(SC_SERIALIZABLE)),
                              I32(3) \o EncNull \o EncRef(k) \o EncEnd) : k \in 3..4}

\* class Q { byte[] a; }
NameQ == <<81>>
DescQ ==
    EncClassDesc(NameQ, 16, SC_SERIALIZABLE, 1,
                 EncObjField(91, NameLowerA, EncString(NameByteArray)), <<>>, EncNull)

\* An object whose only field, of type code '[' or 'L', has every byte in
\* turn where its value begins; the stream ends with that byte.
ArrayFieldTagInputs == {Header \o EncObject(DescQ, <<b>>) : b \in 0..255}
ObjectFieldTagInputs == {Header \o EncObject(DescH, <<b>>) : b \in 0..255}

\* The type codes of a field: B C D F I J S Z [ L.
FieldTypeCodes == {66, 67, 68, 70, 73, 74, 83, 90, 91, 76}

\* class U { <typeCode> x; } with the given flags.
NameU == <<85>>
DescU(typeCode, flags) ==
    EncClassDesc(NameU, 17, flags, 1, EncPrimField(typeCode, NameLowerX), <<>>, EncNull)

\* A field descriptor with every byte in turn that is not a type code, in
\* the descriptor of an object whose class is not serializable, so that no
\* field value is read; and with some of these bytes, in the descriptor of
\* an enum constant, and in the descriptor of a serializable class whose
\* object has a value for the field.
BadFieldTypeInputs ==
    {Header \o EncObject(DescU(b, 0), <<>>) : b \in (0..255) \ FieldTypeCodes}
    \cup {Header \o EncObject(DescH, EncEnum(DescU(b, SC_SERIALIZABLE + SC_ENUM),
                                             EncString(NameA))) : b \in {0, 81, 255}}
    \cup {Header \o EncObject(DescU(b, SC_SERIALIZABLE), I32(1)) : b \in {0, 81, 255}}

\* An object of class N, whose descriptor says it has 0x8000 or more
\* fields and goes on with the end of its annotation.
NameN == <<78>>
FieldCounts == {32768, 32769, 65535}
FieldCountInputs ==
    {Header \o EncObject(EncClassDesc(NameN, 18, SC_SERIALIZABLE, count, <<>>, <<>>,
                                      EncNull), <<>>) : count \in FieldCounts}

Inputs ==
    ContentInputs \cup HeaderInputs \cup TagInputs \cup TruncatedInputs
        \cup BlockSizeInputs \cup ProtocolInputs \cup PrimitiveInputs \cup OrderInputs
        \cup SelfReferenceInputs \cup OwnReferenceInputs
        \cup ArrayFieldTagInputs \cup ObjectFieldTagInputs \cup BadFieldTypeInputs
        \cup FieldCountInputs

----------------------------------------------------------------------------
(* The state machine.                                                      *)

\* Names of classes in the streams of the older decoder that every
\* JavaScript object inherits a property for, "constructor" and
\* "toString"; and the names classes are registered under.
NameConstructor == <<99, 111, 110, 115, 116, 114, 117, 99, 116, 111, 114>>
NameToString == <<116, 111, 83, 116, 114, 105, 110, 103>>
ClassNames == {NameC, NameD, NameConstructor}

\* const CLASSES = {}: no property of its own.
NoClasses == [name \in ClassNames |-> "undefined"]

\* The decode state the next call starts from.
S == [stream |-> stream, pos |-> pos, heap |-> heap, references |-> references,
      currentHandle |-> currentHandle, thrown |-> FALSE, error |-> "",
      ret |-> Undefined, events |-> events, source |-> source]

\* A second decoder, made over a byte source of its own on the same bytes:
\* its fields, its objects and where it stands, as the record other.
InitOther(bytes) ==
    [stream |-> bytes, pos |-> 0, heap |-> <<>>, references |-> <<>>,
     currentHandle |-> initialHandle, objects |-> <<>>, pc |-> "new", error |-> "",
     events |-> <<>>]

Init ==
    /\ stream \in Inputs
    /\ other = InitOther(stream)
    /\ pos = 0
    /\ heap = <<>>
    /\ references = <<>>
    /\ currentHandle = initialHandle
    /\ objects = <<>>
    /\ pc = "new"
    /\ error = ""
    /\ events = <<>>
    /\ starts = <<>>
    /\ source \in NegativeLength
    /\ CLASSES = NoClasses

\* new ObjectInputStream(stream)
Construct ==
    /\ pc = "new"
    /\ \E r \in {constructor(S)} :
          /\ pc' = IF r.thrown THEN "noDecoder" ELSE "constructed"
          /\ pos' = r.pos
          /\ error' = r.error
    /\ UNCHANGED <<stream, heap, references, currentHandle, objects, events, starts,
                   source, other, CLASSES>>

\* readAll catching the error of a content element and returning the
\* objects it holds.
readAllPush_returnsPartial ==
    /\ pc \in {"constructed", "readAll"}
    /\ hasDataLeft(S)
    /\ Len(starts) <= MaxContents
    /\ \E r \in {readContentElement(S)} :
          /\ pc' = IF r.thrown THEN "returned" ELSE "readAll"
          /\ objects' = IF r.thrown THEN objects ELSE Append(objects, r.ret)
          /\ pos' = r.pos
          /\ heap' = r.heap
          /\ references' = r.references
          /\ currentHandle' = r.currentHandle
          /\ events' = r.events
          /\ error' = r.error
    /\ starts' = Append(starts, pos)
    /\ UNCHANGED <<stream, source, other, CLASSES>>

\* readAll(): one turn of its loop, objects.push(this.readContentElement())
readAllPush ==
    /\ pc \in {"constructed", "readAll"}
    /\ hasDataLeft(S)
    /\ Len(starts) <= MaxContents
    /\ \E r \in {readContentElement(S)} :
          /\ pc' = IF r.thrown THEN "thrown" ELSE "readAll"
          /\ objects' = IF r.thrown THEN objects ELSE Append(objects, r.ret)
          /\ pos' = r.pos
          /\ heap' = r.heap
          /\ references' = r.references
          /\ currentHandle' = r.currentHandle
          /\ events' = r.events
          /\ error' = r.error
    /\ starts' = Append(starts, pos)
    /\ UNCHANGED <<stream, source, other, CLASSES>>

\* readAll returning once it holds an object.
readAllReturn_afterFirst ==
    /\ pc \in {"constructed", "readAll"}
    /\ ~hasDataLeft(S) \/ Len(objects) >= 1
    /\ pc' = "returned"
    /\ UNCHANGED <<stream, pos, heap, references, currentHandle, objects, error,
                   events, starts, source, other, CLASSES>>

\* readAll(): the loop ends, return objects
readAllReturn ==
    /\ pc \in {"constructed", "readAll"}
    /\ ~hasDataLeft(S)
    /\ pc' = "returned"
    /\ UNCHANGED <<stream, pos, heap, references, currentHandle, objects, error,
                   events, starts, source, other, CLASSES>>

Next == Construct \/ readAllPush \/ readAllReturn

Spec == Init /\ [][Next]_vars

\* The streams decoding is followed to its end on: one content, with and
\* without handles and references, a stream cut short, and block data with
\* length bytes from both halves of the range of a byte.
BlockSizes == {0, 1, 2, 127, 128, 129, 252, 253, 254, 255}
LiveInputs ==
    {Header \o c : c \in Palette}
    \cup {q \in BlockSizeInputs : q[6] \in BlockSizes}
    \cup {SubSeq(Header \o EncObject(DescF, EncString(NameHi)), 1, k) : k \in 28..40}

InitLive ==
    /\ stream \in LiveInputs
    /\ other = InitOther(stream)
    /\ pos = 0
    /\ heap = <<>>
    /\ references = <<>>
    /\ currentHandle = initialHandle
    /\ objects = <<>>
    /\ pc = "new"
    /\ error = ""
    /\ events = <<>>
    /\ starts = <<>>
    /\ source \in NegativeLength
    /\ CLASSES = NoClasses

\* A step is left to take: the constructor, or readAll's loop, which
\* takes its next turn while data is left and returns otherwise.
CanStep ==
    \/ pc = "new"
    \/ /\ pc \in {"constructed", "readAll"}
       /\ hasDataLeft(S) => Len(starts) <= MaxContents

\* What every step does to the position of the caller and to the list of
\* cursors the turns started at.
Turn ==
    /\ CanStep
    /\ pc' \in {"noDecoder", "constructed", "readAll", "thrown", "returned"}
    /\ starts' \in {starts, Append(starts, pos)}

\* The caller is one thread that goes on: the constructor runs, and
\* readAll's loop takes its next turn or returns, whenever it can.
SpecLive == InitLive /\ [][Next]_vars /\ WF_<<pc, starts>>(Turn)

\* The first decoder is done: it was not made, or its readAll threw or
\* returned.
Finished == pc \in {"noDecoder", "thrown", "returned"}

\* The handle counter is one, shared by the two decoders.
SOther_sharedHandle ==
    [stream |-> other.stream, pos |-> other.pos, heap |-> other.heap,
     references |-> other.references,
     currentHandle |-> IF other.pc = "constructed" THEN currentHandle
                       ELSE other.currentHandle,
     thrown |-> FALSE, error |-> "", ret |-> Undefined, events |-> other.events,
     source |-> source]

\* The decode state the next call of the second decoder starts from.
SOther ==
    [stream |-> other.stream, pos |-> other.pos, heap |-> other.heap,
     references |-> other.references, currentHandle |-> other.currentHandle,
     thrown |-> FALSE, error |-> "", ret |-> Undefined, events |-> other.events,
     source |-> source]

\* new ObjectInputStream(stream), the second decoder
OtherConstruct ==
    /\ Finished
    /\ other.pc = "new"
    /\ \E r \in {constructor(SOther)} :
          other' = [other EXCEPT !.pc = IF r.thrown THEN "noDecoder" ELSE "constructed",
                                 !.pos = r.pos,
                                 !.error = r.error]
    /\ UNCHANGED <<stream, pos, heap, references, currentHandle, objects, pc, error,
                   events, starts, source, CLASSES>>

\* readAll() of the second decoder: one turn of its loop
OtherReadAllPush ==
    /\ other.pc \in {"constructed", "readAll"}
    /\ hasDataLeft(SOther)
    /\ Len(other.objects) <= MaxContents
    /\ \E r \in {readContentElement(SOther)} :
          other' = [stream |-> other.stream, pos |-> r.pos, heap |-> r.heap,
                    references |-> r.references,
                    currentHandle |-> r.currentHandle,
                    objects |-> IF r.thrown THEN other.objects
                                ELSE Append(other.objects, r.ret),
                    pc |-> IF r.thrown THEN "thrown" ELSE "readAll",
                    error |-> r.error, events |-> r.events]
    /\ UNCHANGED <<stream, pos, heap, references, currentHandle, objects, pc, error,
                   events, starts, source, CLASSES>>

\* readAll() of the second decoder: the loop ends, return objects
OtherReadAllReturn ==
    /\ other.pc \in {"constructed", "readAll"}
    /\ ~hasDataLeft(SOther)
    /\ other' = [other EXCEPT !.pc = "returned"]
    /\ UNCHANGED <<stream, pos, heap, references, currentHandle, objects, pc, error,
                   events, starts, source, CLASSES>>

NextTwo ==
    \/ Construct \/ readAllPush \/ readAllReturn
    \/ OtherConstruct \/ OtherReadAllPush \/ OtherReadAllReturn

\* Two decoders over the same bytes, the second run after the first.
SpecTwo == Init /\ [][NextTwo]_vars

\* The streams two decoders that run side by side are given: strings,
\* objects, block data and references that resolve, a reference and a tag
\* that make readAll throw, and a header that makes the constructor throw.
PairInputs ==
    { Header \o EncString(NameHi),
      Header \o EncString(NameA) \o EncRef(0),
      Header \o EncObject(DescC(SC_SERIALIZABLE), I32(1)) \o EncObject(EncRef(0), I32(2)),
      Header \o EncObject(DescD(DescC(SC_SERIALIZABLE)),
                          I32(3) \o EncObject(EncRef(2), I32(4)) \o EncBlock(<<1>>)
                              \o EncEnd),
      Header \o EncBlock(<<222, 173>>) \o EncLongString(NameHi),
      Header \o EncString(NameHi) \o EncRef(5),
      Header \o EncNull,
      <<172, 237, 0, 4>> \o EncString(NameHi) }

\* Each decoder is given a stream of its own.
InitPair ==
    /\ stream \in PairInputs
    /\ \E bytes \in PairInputs : other = InitOther(bytes)
    /\ pos = 0
    /\ heap = <<>>
    /\ references = <<>>
    /\ currentHandle = initialHandle
    /\ objects = <<>>
    /\ pc = "new"
    /\ error = ""
    /\ events = <<>>
    /\ starts = <<>>
    /\ source \in NegativeLength
    /\ CLASSES = NoClasses

\* new ObjectInputStream(stream), the second decoder, wherever the first
\* one stands
OtherConstructBeside ==
    /\ other.pc = "new"
    /\ \E r \in {constructor(SOther)} :
          other' = [other EXCEPT !.pc = IF r.thrown THEN "noDecoder" ELSE "constructed",
                                 !.pos = r.pos,
                                 !.error = r.error]
    /\ UNCHANGED <<stream, pos, heap, references, currentHandle, objects, pc, error,
                   events, starts, source, CLASSES>>

NextPair ==
    \/ Construct \/ readAllPush \/ readAllReturn
    \/ OtherConstructBeside \/ OtherReadAllPush \/ OtherReadAllReturn

\* Two decoders, each over a byte source of its own, their calls
\* interleaved in every way.
SpecPair == InitPair /\ [][NextPair]_vars

----------------------------------------------------------------------------
(* JavaObjectInputStream, the older decoder                                *)
(* (src/src/java-object-input-stream.ts).  Its nodes are plain JavaScript  *)
(* objects: { class } for an object or an array, { name, serialVersionUID, *)
(* data, info } for a class description, and the object, array or Buffer   *)
(* that is the `data` of a class description.  All of them are heap cells  *)
(* with the same fields: keys and vals are the named properties of a data  *)
(* object in the order they were set, elements the elements of an array or *)
(* the bytes of a Buffer.  A string is a primitive value; the handle table *)
(* holds it as it is.  The decode state carries CLASSES, which the readers *)
(* look up and never write.                                                *)

JavaClassDescriptionNoInfo ==
    [defined |-> FALSE, flags |-> [flags |-> 0, strings |-> <<>>], fields |-> <<>>,
     superClass |-> Undefined]

PlainCell(kind) ==
    [kind |-> kind, class |-> Undefined, name |-> Undefined,
     serialVersionUID |-> Undefined, data |-> Undefined,
     info |-> JavaClassDescriptionNoInfo, keys |-> <<>>, vals |-> <<>>,
     elements |-> <<>>]

NewObjectLiteral == PlainCell("Object")
NewArrayLiteral == PlainCell("Array")
NewBuffer == PlainCell("Buffer")
JavaObject == PlainCell("JavaObject")
JavaClassDescription == PlainCell("JavaClassDescription")

\* `if (x)`, `x || null`: objects and non-empty strings are truthy; null,
\* undefined and the empty string are not.
IsTruthy(v) == v.t = "ref" \/ (v.t = "string" /\ v.s # <<>>)

\* (byte & flag) === flag, and `byte & flag` as a condition, for a flag of
\* one bit and a byte that readByte read as a signed number.
BitSet(byte, flag) == ((byte % 256) \div flag) % 2 = 1

\* The decimal digits of a number that is not negative.
RECURSIVE Digits(_)
Digits(n) == IF n < 10 THEN <<48 + n>> ELSE Digits(n \div 10) \o <<48 + (n % 10)>>

\* bigint.toString(): the decimal digits, with a sign, of the 64-bit number
\* of halves <<hi, lo>>.  The descriptors of the model have version numbers
\* between -2^31 and 2^31; of any other number the halves are kept.
BigIntToString(hl) ==
    IF hl[1] = 0 /\ hl[2] >= 0 THEN Str(Digits(hl[2]))
    ELSE IF hl[1] = -1 /\ hl[2] < 0 /\ hl[2] > -2147483647 THEN Str(<<45>> \o Digits(-hl[2]))
    ELSE [t |-> "string", n |-> 1, s |-> hl]

\* Buffer.from(array): every element as a byte.
BufferFrom(elements) == [i \in 1..Len(elements) |-> Num(elements[i].n % 256)]

\* this.references.push(v)
referencesPush(s, v) == IF s.thrown THEN s ELSE [s EXCEPT !.references = Append(@, v)]

\* object[key] = v for the data object, array or Buffer at address d: a
\* key it has keeps its place, a new key comes last.  The keys of the
\* model are names of letters, none of them an index of an array.
SetProperty(s, d, key, v) ==
    IF s.thrown THEN s
    ELSE IF \E k \in 1..Len(s.heap[d].keys) : s.heap[d].keys[k] = key
    THEN [s EXCEPT !.heap[d].vals =
              [k \in 1..Len(@) |-> IF s.heap[d].keys[k] = key THEN v ELSE @[k]]]
    ELSE [s EXCEPT !.heap[d].keys = Append(@, key), !.heap[d].vals = Append(@, v)]

\* The constructors given to registerClass: class Long of
\* src/classes/java/lang/long.ts, whose readObject calls defaultReadObject,
\* and a class without a readObject method.
Constructors == {"Long", "Plain"}

\* CLASSES[name]: the constructor registered under the name, else what the
\* object inherits under that name from Object.prototype: its
\* `constructor` is Object, whose instances have no readObject method;
\* its `toString` is a function that is not a constructor; any other name
\* of the model gives undefined.
Registered(classes, name) ==
    name.t = "string" /\ name.s \in DOMAIN classes /\ classes[name.s] # "undefined"
Lookup(classes, name) ==
    IF Registered(classes, name) THEN classes[name.s]
    ELSE IF name.t = "string" /\ name.s = NameConstructor THEN "Object"
    ELSE IF name.t = "string" /\ name.s = NameToString THEN "method"
    ELSE "undefined"

RECURSIVE JavaObjectInputStream_this(_, _, _)

\* new JavaObjectInputStream(stream)
JavaObjectInputStream_constructor(s) ==
    LET afterVersion(r2) ==
            IF r2.thrown THEN r2
            ELSE IF r2.ret # STREAM_VERSION THEN Throw(r2, "Bad version")
            ELSE Return(r2, Undefined)
        afterMagic(r1) ==
            IF r1.thrown THEN r1
            ELSE IF r1.ret # STREAM_MAGIC THEN Throw(r1, "Bad magic")
            ELSE afterVersion(readUInt16BE(r1))
    IN afterMagic(read(s, 2))

JavaObjectInputStream_readObject(s) ==
    LET switch(p) ==
            IF p.thrown THEN p
            ELSE CASE p.ret = TC_NULL -> JavaObjectInputStream_this("readNull", p, Undefined)
                   [] p.ret = TC_REFERENCE ->
                          JavaObjectInputStream_this("readTC_REFERENCE", p, Undefined)
                   [] p.ret = TC_OBJECT ->
                          JavaObjectInputStream_this("readNewObject", p, Undefined)
                   [] p.ret = TC_ARRAY ->
                          JavaObjectInputStream_this("readTC_ARRAY", p, Undefined)
                   [] p.ret \in {TC_STRING, TC_LONGSTRING} ->
                          JavaObjectInputStream_this("readNewString", p, Undefined)
                   [] OTHER -> Throw(p, "Bad readObject type ID")
    IN switch(peek(s))

\* readFieldValue(type): type is a string of one character, or undefined.
JavaObjectInputStream_readFieldValue(s, type) ==
    LET afterNumber(r) == IF r.thrown THEN r ELSE Return(r, Num(r.ret))
        afterChar(r) == IF r.thrown THEN r ELSE Return(r, Str(<<r.ret>>))
        afterDouble(r) == IF r.thrown THEN r ELSE Return(r, Double(r.ret))
        afterFloat(r) == IF r.thrown THEN r ELSE Return(r, Float(r.ret))
        afterLong(r) == IF r.thrown THEN r ELSE Return(r, BigInt(r.ret))
        afterBoolean(r) == IF r.thrown THEN r ELSE Return(r, Bool(r.ret))
    IN IF s.thrown THEN s
       ELSE CASE type.s = <<66>> -> afterNumber(readInt8(s))
              [] type.s = <<67>> -> afterChar(readUInt16BE(s))
              [] type.s = <<68>> -> afterDouble(readDoubleBE(s))
              [] type.s = <<70>> -> afterFloat(readFloatBE(s))
              [] type.s = <<73>> -> afterNumber(readInt32BE(s))
              [] type.s = <<74>> -> afterLong(readInt64BE(s))
              [] type.s = <<83>> -> afterNumber(readInt16BE(s))
              [] type.s = <<90>> -> afterBoolean(readBooleanSrc(s))
              [] type.s \in {<<91>>, <<76>>} ->
                     JavaObjectInputStream_this("readObject", s, Undefined)
              [] OTHER -> Throw(s, "Unsupported field type")

\* defaultReadFields(classDescription): for each field of the description
\* at address c, classDescription.data[field.name] = readFieldValue(...).
\* The data object is looked up before the value is read.
RECURSIVE JavaObjectInputStream_defaultReadFieldsLoop(_, _, _)
JavaObjectInputStream_defaultReadFieldsLoop(s, c, i) ==
    LET afterValue(d, name, r) ==
            IF r.thrown THEN r
            ELSE JavaObjectInputStream_defaultReadFieldsLoop(
                     SetProperty(r, d.n, name.s, r.ret), c, i + 1)
        field(d, f) ==
            afterValue(d, f.name, JavaObjectInputStream_this("readFieldValue", s, f.type))
    IN IF s.thrown THEN s
       ELSE IF i > Len(s.heap[c].info.fields) THEN Return(s, Undefined)
       ELSE field(s.heap[c].data, s.heap[c].info.fields[i])

JavaObjectInputStream_defaultReadFields(s, classDescription) ==
    JavaObjectInputStream_defaultReadFieldsLoop(s, classDescription.n, 1)

JavaObjectInputStream_defaultReadObject(s, classDescription) ==
    JavaObjectInputStream_this("defaultReadFields", s, classDescription)

\* Long.readObject(ois, classDescription) of src/classes/java/lang/long.ts
Long_readObject(s, classDescription) ==
    JavaObjectInputStream_this("defaultReadObject", s, classDescription)

\* readClassData: the while loop, classDescription.info?.superClass || null.
\* A chain that comes back to itself makes the loop fill the memory; the
\* walk is given as many turns as a chain without a cycle can have, and one
\* more.
RECURSIVE JavaObjectInputStream_classHierarchyWhile(_, _, _)
JavaObjectInputStream_classHierarchyWhile(h, classDescription, turns) ==
    IF ~IsTruthy(classDescription) \/ turns = 0 THEN <<>>
    ELSE <<classDescription>> \o
         JavaObjectInputStream_classHierarchyWhile(
             h,
             IF IsRef(classDescription) /\ h[classDescription.n].info.defined
             THEN h[classDescription.n].info.superClass
             ELSE Undefined,
             turns - 1)

JavaObjectInputStream_classHierarchy(h, classDescription) ==
    JavaObjectInputStream_classHierarchyWhile(h, classDescription, Len(h) + 2)

\* readClassData: the body of the for loop, for the classes of the
\* hierarchy from the i-th on.
RECURSIVE JavaObjectInputStream_readClassDataLoop(_, _, _)
JavaObjectInputStream_readClassDataLoop(s, hierarchy, i) ==
    LET next(c, r) ==
            JavaObjectInputStream_readClassDataLoop(
                Log(r, Ev("levelEnd", c, 0, 0, r.pos, <<>>)), hierarchy, i + 1)
        afterByte(c, r) ==
            IF r.thrown THEN r
            ELSE IF r.ret # TC_ENDBLOCKDATA THEN Throw(r, "Invalid end block byte")
            ELSE next(c, r)
        afterData(c, flags, checkEndBlock, r) ==
            IF r.thrown THEN r
            ELSE IF checkEndBlock
            THEN afterByte(c, readInt8(Log(r, Ev("levelData", c, 0, flags, r.pos, <<>>))))
            ELSE next(c, Log(r, Ev("levelData", c, 0, flags, r.pos, <<>>)))
        afterCheckNext(p) == IF p.thrown THEN p ELSE Throw(p, "process.exit")
        serializable(c, flags, cls, r) ==
            IF cls = "undefined" THEN Throw(r, "No class definition")
            ELSE IF cls = "method" THEN Throw(r, "TypeError")
            ELSE IF BitSet(flags, SC_WRITE_METHOD)
            THEN IF cls = "Long"
                 THEN afterData(c, flags, TRUE,
                                JavaObjectInputStream_this("Long_readObject", r, Ref(c)))
                 ELSE Throw(r, "TypeError")
            ELSE afterData(c, flags, BitSet(flags, SC_BLOCKDATA),
                           IF cls = "Long"
                           THEN JavaObjectInputStream_this("Long_readObject", r, Ref(c))
                           ELSE JavaObjectInputStream_this("defaultReadObject", r, Ref(c)))
        level(c, flags, r) ==
            IF BitSet(flags, SC_SERIALIZABLE)
            THEN serializable(c, flags, Lookup(r.CLASSES, r.heap[c].name), r)
            ELSE IF BitSet(flags, SC_EXTERNALIZABLE) THEN afterCheckNext(peek(r))
            ELSE Throw(r, "Bad flags")
        start(c, flags) ==
            level(c, flags,
                  Log(s, Ev("levelStart", c,
                            IF Registered(s.CLASSES, s.heap[c].name) THEN 1 ELSE 0,
                            flags, s.pos, <<>>)))
        body(classDescription) ==
            IF ~IsRef(classDescription) THEN Throw(s, "TypeError")
            ELSE IF ~s.heap[classDescription.n].info.defined THEN Throw(s, "TypeError")
            ELSE start(classDescription.n, s.heap[classDescription.n].info.flags.flags)
    IN IF s.thrown THEN s
       ELSE IF i > Len(hierarchy) THEN Return(s, Undefined)
       ELSE body(hierarchy[i])

JavaObjectInputStream_readClassData(s, classDescription) ==
    LET loop(hierarchy) ==
            IF Len(hierarchy) > Len(s.heap) + 1 THEN Throw(s, "RangeError")
            ELSE JavaObjectInputStream_readClassDataLoop(s, reverse(hierarchy), 1)
    IN IF s.thrown THEN s
       ELSE loop(JavaObjectInputStream_classHierarchy(s.heap, classDescription))

JavaObjectInputStream_readNull(s) == Return(skip(s, 1), Null)

\* readNewObject: the object is in the handle table before its class data
\* is read.
JavaObjectInputStream_readNewObject(s) ==
    LET afterClassData(object, r3) ==
            IF r3.thrown THEN r3
            ELSE Return(Log(r3, Ev("read", object, 0, 0, r3.pos, r3.heap)), Ref(object))
        afterObject(class, r) ==
            afterClassData(r.ret.n,
                           JavaObjectInputStream_this("readClassData",
                                                      referencesPush(r, r.ret), class))
        afterClassDesc(r2) ==
            IF r2.thrown THEN r2
            ELSE afterObject(r2.ret, new(r2, [JavaObject EXCEPT !.class = r2.ret]))
        afterTypeID(r1) ==
            IF r1.thrown THEN r1
            ELSE IF r1.ret # TC_OBJECT THEN Throw(r1, "Bad TC_OBJECT type ID")
            ELSE afterClassDesc(JavaObjectInputStream_this("readClassDesc", r1, Undefined))
    IN afterTypeID(readInt8(s))

JavaObjectInputStream_readClassDesc(s) ==
    LET switch(p) ==
            IF p.thrown THEN p
            ELSE CASE p.ret = TC_NULL -> JavaObjectInputStream_this("readNull", p, Undefined)
                   [] p.ret = TC_REFERENCE ->
                          JavaObjectInputStream_this("readTC_REFERENCE", p, Undefined)
                   [] p.ret = TC_CLASSDESC ->
                          JavaObjectInputStream_this("readNewClassDesc", p, Undefined)
                   [] OTHER -> Throw(p, "Bad readClassDesc typeID")
    IN switch(peek(s))

JavaObjectInputStream_readNewClassDesc(s) ==
    LET switch(p) ==
            IF p.thrown THEN p
            ELSE IF p.ret = TC_CLASSDESC
            THEN JavaObjectInputStream_this("readTC_CLASSDESC", p, Undefined)
            ELSE Throw(p, "Bad readNewClassDesc typeID")
    IN switch(peek(s))

JavaObjectInputStream_readClassDescFlags(s) ==
    LET strings(flagsByte) ==
            SelectSeq(<<"SC_WRITE_METHOD", "SC_SERIALIZABLE", "SC_EXTERNALIZABLE",
                        "SC_BLOCK_DATA", "SC_ENUM">>,
                      LAMBDA f :
                          BitSet(flagsByte,
                                 CASE f = "SC_WRITE_METHOD" -> SC_WRITE_METHOD
                                   [] f = "SC_SERIALIZABLE" -> SC_SERIALIZABLE
                                   [] f = "SC_EXTERNALIZABLE" -> SC_EXTERNALIZABLE
                                   [] f = "SC_BLOCK_DATA" -> SC_BLOCKDATA
                                   [] f = "SC_ENUM" -> SC_ENUM))
        afterFlagsByte(r) ==
            IF r.thrown THEN r
            ELSE Return(r, [flags |-> r.ret, strings |-> strings(r.ret)])
    IN afterFlagsByte(readInt8(s))

JavaObjectInputStream_readFieldDesc(s) ==
    LET afterClass(type, name, r3) ==
            IF r3.thrown THEN r3
            ELSE Return(r3, [type |-> type, name |-> name, class |-> r3.ret])
        afterName(type, r2) ==
            IF r2.thrown THEN r2
            ELSE afterClass(type, Str(r2.ret),
                            IF type.s \in {<<91>>, <<76>>}
                            THEN JavaObjectInputStream_this("readObject", r2, Undefined)
                            ELSE Return(r2, Undefined))
        afterType(r1) ==
            IF r1.thrown THEN r1 ELSE afterName(fromCharCode(r1.ret), readUTF(r1))
    IN afterType(readInt8(s))

RECURSIVE JavaObjectInputStream_readFieldsLoop(_, _, _, _)
JavaObjectInputStream_readFieldsLoop(s, fieldsCount, i, fields) ==
    LET afterField(r) ==
            JavaObjectInputStream_readFieldsLoop(r, fieldsCount, i + 1,
                                                 Append(fields, r.ret))
    IN IF s.thrown THEN s
       ELSE IF ~(i < fieldsCount) THEN Return(s, fields)
       ELSE afterField(JavaObjectInputStream_this("readFieldDesc", s, Undefined))

JavaObjectInputStream_readFields(s) ==
    LET afterCount(r1) ==
            IF r1.thrown THEN r1
            ELSE JavaObjectInputStream_readFieldsLoop(r1, r1.ret, 0, <<>>)
    IN afterCount(readInt16BE(s))

JavaObjectInputStream_readClassAnnotation(s) ==
    LET afterTypeID(r1) ==
            IF r1.thrown THEN r1
            ELSE IF r1.ret # TC_ENDBLOCKDATA
            THEN Throw(r1, "Unsupported class annotation type")
            ELSE Return(r1, Undefined)
    IN afterTypeID(readInt8(s))

JavaObjectInputStream_readSuperClassDesc(s) ==
    JavaObjectInputStream_this("readClassDesc", s, Undefined)

JavaObjectInputStream_readClassDescInfo(s) ==
    LET afterSuperClass(flags, fields, r4) ==
            IF r4.thrown THEN r4
            ELSE Return(r4, [defined |-> TRUE, flags |-> flags, fields |-> fields,
                             superClass |-> r4.ret])
        afterAnnotation(flags, fields, r3) ==
            IF r3.thrown THEN r3
            ELSE afterSuperClass(flags, fields,
                                 JavaObjectInputStream_this("readSuperClassDesc", r3,
                                                            Undefined))
        afterFields(flags, r2) ==
            IF r2.thrown THEN r2
            ELSE afterAnnotation(flags, r2.ret,
                                 JavaObjectInputStream_this("readClassAnnotation", r2,
                                                            Undefined))
        afterFlags(r1) ==
            IF r1.thrown THEN r1
            ELSE afterFields(r1.ret,
                             JavaObjectInputStream_this("readFields", r1, Undefined))
    IN afterFlags(JavaObjectInputStream_this("readClassDescFlags", s, Undefined))

JavaObjectInputStream_readTC_STRING(s) ==
    LET afterUTF(r2) == IF r2.thrown THEN r2 ELSE Return(r2, Str(r2.ret))
        afterTypeID(r1) ==
            IF r1.thrown THEN r1
            ELSE IF r1.ret # TC_STRING THEN Throw(r1, "Bad TC_STRING type ID")
            ELSE afterUTF(readUTF(r1))
    IN afterTypeID(readInt8(s))

\* readNewString: the switch has a case for TC_STRING alone.
JavaObjectInputStream_readNewString(s) ==
    LET afterString(r) == IF r.thrown THEN r ELSE Return(referencesPush(r, r.ret), r.ret)
        switch(p) ==
            IF p.thrown THEN p
            ELSE IF p.ret = TC_STRING
            THEN afterString(JavaObjectInputStream_this("readTC_STRING", p, Undefined))
            ELSE Throw(p, "Bad readNewString type ID")
    IN switch(peek(s))

\* readTC_REFERENCE: the entry itself, undefined when the table has none.
JavaObjectInputStream_readTC_REFERENCE(s) ==
    LET element(r, i) ==
            Return(r, IF i >= 0 /\ i < Len(r.references) THEN r.references[i + 1]
                      ELSE Undefined)
        afterHandle(r2) == IF r2.thrown THEN r2 ELSE element(r2, r2.ret - baseWireHandle)
        afterTypeID(r1) ==
            IF r1.thrown THEN r1
            ELSE IF r1.ret # TC_REFERENCE THEN Throw(r1, "Bad TC_REFERENCE type ID")
            ELSE afterHandle(readInt32BE(r1))
    IN afterTypeID(readInt8(s))

\* readTC_CLASSDESC: the description is in the handle table before its
\* info is read.
JavaObjectInputStream_readTC_CLASSDESC(s) ==
    LET afterInfo(c, r4) ==
            IF r4.thrown THEN r4
            ELSE Return([r4 EXCEPT !.heap[c].info = r4.ret], Ref(c))
        afterDescription(r) ==
            afterInfo(r.ret.n,
                      JavaObjectInputStream_this("readClassDescInfo",
                                                 referencesPush(r, r.ret), Undefined))
        afterData(name, serialVersionUID, r3) ==
            afterDescription(new(r3, [JavaClassDescription EXCEPT
                                          !.name = name,
                                          !.serialVersionUID = serialVersionUID,
                                          !.data = r3.ret]))
        afterLong(name, r2) ==
            IF r2.thrown THEN r2
            ELSE afterData(name, BigIntToString(r2.ret), new(r2, NewObjectLiteral))
        afterName(r) == IF r.thrown THEN r ELSE afterLong(Str(r.ret), readInt64BE(r))
        afterTypeID(r1) ==
            IF r1.thrown THEN r1
            ELSE IF r1.ret # TC_CLASSDESC THEN Throw(r1, "Bad TC_CLASSDESC type ID")
            ELSE afterName(readUTF(r1))
    IN afterTypeID(readInt8(s))

\* readTC_ARRAY: the for loop.  object.class.data is looked up, then the
\* element is read, then push is called on what was looked up; an object
\* or a Buffer has no push.
RECURSIVE JavaObjectInputStream_readTC_ARRAYLoop(_, _, _, _, _)
JavaObjectInputStream_readTC_ARRAYLoop(s, class, type, size, i) ==
    LET afterValue(d, r) ==
            IF r.thrown THEN r
            ELSE IF r.heap[d.n].kind # "Array" THEN Throw(r, "TypeError")
            ELSE JavaObjectInputStream_readTC_ARRAYLoop(
                     [r EXCEPT !.heap[d.n].elements = Append(@, r.ret)],
                     class, type, size, i + 1)
    IN IF s.thrown THEN s
       ELSE IF ~(i < size) THEN Return(s, Undefined)
       ELSE afterValue(s.heap[class.n].data,
                       JavaObjectInputStream_this("readFieldValue", s, type))

\* readTC_ARRAY: object.class.data = [] on the class description that
\* readClassDesc returned.
JavaObjectInputStream_readTC_ARRAY(s) ==
    LET return(object, r) ==
            IF r.thrown THEN r
            ELSE Return(Log(r, Ev("read", object, 0, 0, r.pos, r.heap)), Ref(object))
        afterBuffer(class, object, r7) ==
            return(object, [r7 EXCEPT !.heap[class.n].data = r7.ret])
        afterElements(class, object, r6) ==
            IF r6.thrown THEN r6
            ELSE IF r6.heap[class.n].name.s = NameByteArray
            THEN afterBuffer(class, object,
                             new(r6, [NewBuffer EXCEPT !.elements =
                                          BufferFrom(r6.heap[r6.heap[class.n].data.n]
                                                         .elements)]))
            ELSE return(object, r6)
        afterSize(class, object, r5) ==
            IF r5.thrown THEN r5
            ELSE IF r5.heap[class.n].name.t # "string" THEN Throw(r5, "TypeError")
            ELSE afterElements(class, object,
                               JavaObjectInputStream_readTC_ARRAYLoop(
                                   r5, class,
                                   IF Len(r5.heap[class.n].name.s) >= 2
                                   THEN Str(<<r5.heap[class.n].name.s[2]>>)
                                   ELSE Undefined,
                                   r5.ret, 0))
        afterArray(class, object, r4) ==
            afterSize(class, object,
                      readInt32BE(referencesPush([r4 EXCEPT !.heap[class.n].data = r4.ret],
                                                 Ref(object))))
        afterObject(class, r3) == afterArray(class, r3.ret.n, new(r3, NewArrayLiteral))
        afterClassDesc(r2) ==
            IF r2.thrown THEN r2
            ELSE IF ~IsRef(r2.ret) THEN Throw(r2, "TypeError")
            ELSE afterObject(r2.ret, new(r2, [JavaObject EXCEPT !.class = r2.ret]))
        afterTypeID(r1) ==
            IF r1.thrown THEN r1
            ELSE IF r1.ret # TC_ARRAY THEN Throw(r1, "Bad TC_ARRAY type ID")
            ELSE afterClassDesc(JavaObjectInputStream_this("readClassDesc", r1, Undefined))
    IN afterTypeID(readInt8(s))

\* this.<method>(arg)
JavaObjectInputStream_this(method, s, arg) ==
    CASE method = "readObject" -> JavaObjectInputStream_readObject(s)
      [] method = "readFieldValue" -> JavaObjectInputStream_readFieldValue(s, arg)
      [] method = "defaultReadFields" -> JavaObjectInputStream_defaultReadFields(s, arg)
      [] method = "defaultReadObject" -> JavaObjectInputStream_defaultReadObject(s, arg)
      [] method = "Long_readObject" -> Long_readObject(s, arg)
      [] method = "readClassData" -> JavaObjectInputStream_readClassData(s, arg)
      [] method = "readNull" -> JavaObjectInputStream_readNull(s)
      [] method = "readNewObject" -> JavaObjectInputStream_readNewObject(s)
      [] method = "readClassDesc" -> JavaObjectInputStream_readClassDesc(s)
      [] method = "readNewClassDesc" -> JavaObjectInputStream_readNewClassDesc(s)
      [] method = "readClassDescInfo" -> JavaObjectInputStream_readClassDescInfo(s)
      [] method = "readClassDescFlags" -> JavaObjectInputStream_readClassDescFlags(s)
      [] method = "readFields" -> JavaObjectInputStream_readFields(s)
      [] method = "readFieldDesc" -> JavaObjectInputStream_readFieldDesc(s)
      [] method = "readClassAnnotation" -> JavaObjectInputStream_readClassAnnotation(s)
      [] method = "readSuperClassDesc" -> JavaObjectInputStream_readSuperClassDesc(s)
      [] method = "readNewString" -> JavaObjectInputStream_readNewString(s)
      [] method = "readTC_STRING" -> JavaObjectInputStream_readTC_STRING(s)
      [] method = "readTC_REFERENCE" -> JavaObjectInputStream_readTC_REFERENCE(s)
      [] method = "readTC_CLASSDESC" -> JavaObjectInputStream_readTC_CLASSDESC(s)
      [] method = "readTC_ARRAY" -> JavaObjectInputStream_readTC_ARRAY(s)

----------------------------------------------------------------------------
(* The state machine of the older decoder.  The caller registers classes,  *)
(* makes a JavaObjectInputStream and calls readObject() until it throws.   *)
(* The decoder's fields are the variables stream, pos, heap, references;   *)
(* objects, error, events and starts are kept as for the other decoder.    *)

\* class <name> { int x; } with the given flags and super class.
DescInt(name, flags, super) ==
    EncClassDesc(name, 1, flags, 1, EncPrimField(73, NameLowerX), <<>>, super)

\* The flags of a class description in the streams of the model.
LevelFlags ==
    {0, SC_WRITE_METHOD, SC_SERIALIZABLE, SC_SERIALIZABLE + SC_WRITE_METHOD,
     SC_EXTERNALIZABLE, SC_BLOCKDATA, SC_SERIALIZABLE + SC_BLOCKDATA,
     SC_SERIALIZABLE + SC_WRITE_METHOD + SC_BLOCKDATA,
     SC_EXTERNALIZABLE + SC_BLOCKDATA, SC_SERIALIZABLE + SC_ENUM, 255}

\* What follows the data of a class in the streams of the model: nothing,
\* TC_ENDBLOCKDATA, or another byte.
Terminators == {<<>>, EncEnd, <<0>>, EncNull}

\* One object of a class of one level, for every flags byte, name and
\* terminator.
LevelInputs ==
    {Header \o EncObject(DescInt(name, flags, EncNull), I32(7) \o t) :
         name \in {NameC, NameConstructor, NameToString}, flags \in LevelFlags,
         t \in Terminators}

\* One object of class D extends C, each level with or without a
\* writeObject method, and the terminators that go with them or not.
HierarchyInputs ==
    {Header \o EncObject(DescInt(NameD, SC_SERIALIZABLE + fd,
                                 DescInt(NameC, SC_SERIALIZABLE + fc, EncNull)),
                         I32(1) \o tc \o I32(2) \o td) :
         fd \in {0, SC_WRITE_METHOD}, fc \in {0, SC_WRITE_METHOD},
         tc \in {<<>>, EncEnd}, td \in {<<>>, EncEnd}}

\* Two contents, the second one naming the class description of the first
\* by its handle: two byte arrays, two objects, an object and then an
\* array, and contents that share nothing.
SharedInputs ==
    { Header \o EncArray(DescByteArray, 2, <<1, 2>>) \o EncArray(EncRef(0), 1, <<3>>),
      Header \o EncArray(DescByteArray, 2, <<1, 255>>)
             \o EncArray(DescByteArray, 1, <<3>>),
      Header \o EncObject(DescInt(NameC, SC_SERIALIZABLE, EncNull), I32(7))
             \o EncObject(EncRef(0), I32(9)),
      Header \o EncObject(DescInt(NameC, SC_SERIALIZABLE, EncNull), I32(7))
             \o EncObject(DescInt(NameC, SC_SERIALIZABLE, EncNull), I32(9)),
      Header \o EncObject(DescInt(NameC, SC_SERIALIZABLE, EncNull), I32(7))
             \o EncArray(EncRef(0), 1, I32(9)),
      Header \o EncObject(DescInt(NameC, SC_SERIALIZABLE, EncNull), I32(7)) \o EncRef(1),
      Header \o EncString(NameHi) \o EncRef(0),
      Header \o EncNull \o EncString(NameA),
      Header \o EncObject(EncNull, <<>>),
      Header \o EncObject(DescH, EncString(NameHi)),
      Header \o EncLongString(NameHi) }

JavaInputs ==
    LevelInputs \cup HierarchyInputs \cup SharedInputs
        \cup {SubSeq(Header, 1, k) : k \in 0..4} \cup {<<172, 237, 0, 4>>}

\* The decode state the next call of the older decoder starts from.
SJava ==
    [stream |-> stream, pos |-> pos, heap |-> heap, references |-> references,
     thrown |-> FALSE, error |-> "", ret |-> Undefined, events |-> events,
     source |-> source, CLASSES |-> CLASSES]

\* No reader of the older decoder asks for a negative number of bytes.
InitJava ==
    /\ stream \in JavaInputs
    /\ other = InitOther(stream)
    /\ pos = 0
    /\ heap = <<>>
    /\ references = <<>>
    /\ currentHandle = initialHandle
    /\ objects = <<>>
    /\ pc = "new"
    /\ error = ""
    /\ events = <<>>
    /\ starts = <<>>
    /\ source = "throws"
    /\ CLASSES = NoClasses

\* registerClass(name, constructor)
registerClass ==
    /\ \E name \in ClassNames, cls \in Constructors :
           CLASSES' = [CLASSES EXCEPT ![name] = cls]
    /\ UNCHANGED <<stream, pos, heap, references, currentHandle, objects, pc, error,
                   events, starts, source, other>>

\* new JavaObjectInputStream(stream)
JavaObjectInputStream_new ==
    /\ pc = "new"
    /\ \E r \in {JavaObjectInputStream_constructor(SJava)} :
          /\ pc' = IF r.thrown THEN "noDecoder" ELSE "constructed"
          /\ pos' = r.pos
          /\ error' = r.error
    /\ UNCHANGED <<stream, heap, references, currentHandle, objects, events, starts,
                   source, other, CLASSES>>

\* One call of readObject() by the caller, who stops at the first error.
\* What the call did to the objects of the heap before it threw stays
\* done.  process.exit() ends the process.
JavaObjectInputStream_readObjectCall ==
    /\ pc \in {"constructed", "read"}
    /\ \E r \in {JavaObjectInputStream_readObject(SJava)} :
          /\ pc' = IF r.error = "process.exit" THEN "exited"
                   ELSE IF r.thrown THEN "thrown" ELSE "read"
          /\ objects' = IF r.thrown THEN objects ELSE Append(objects, r.ret)
          /\ pos' = r.pos
          /\ heap' = r.heap
          /\ references' = r.references
          /\ events' = r.events
          /\ error' = r.error
    /\ starts' = Append(starts, pos)
    /\ UNCHANGED <<stream, currentHandle, source, other, CLASSES>>

NextJava == registerClass \/ JavaObjectInputStream_new \/ JavaObjectInputStream_readObjectCall

SpecJava == InitJava /\ [][NextJava]_vars

----------------------------------------------------------------------------
(* Properties.                                                             *)

EventsNamed(name) == {i \in 1..Len(events) : events[i].ev = name}
Running == pc \in {"constructed", "readAll"}

\* The stream starts with AC ED and the big-endian 16-bit value 5.
HeaderIsValid ==
    /\ Len(stream) >= 4
    /\ stream[1] = 172 /\ stream[2] = 237
    /\ stream[3] * 256 + stream[4] = 5

\* C1: the constructor succeeds if and only if the stream starts with the
\* magic AC ED followed by the 16-bit version 5; otherwise it throws and
\* there is no decoder; on success exactly 4 bytes have been consumed.
C1_HeaderAccepted ==
    /\ pc = "noDecoder" => ~HeaderIsValid
    /\ pc \notin {"new", "noDecoder"} => HeaderIsValid
    /\ pc = "constructed" => pos = 4

C1_Witness == pc = "constructed" /\ pos = 4 /\ Len(stream) > 4

TopLevelTags ==
    {TC_OBJECT, TC_STRING, TC_LONGSTRING, TC_BLOCKDATA, TC_BLOCKDATALONG, TC_REFERENCE}

\* The class of node a tag's reader makes (a reference: any).
KindsOfTag(tag) ==
    CASE tag = TC_OBJECT -> {"JavaObject"}
      [] tag = TC_STRING -> {"JavaString"}
      [] tag = TC_LONGSTRING -> {"JavaLongString"}
      [] tag = TC_BLOCKDATA -> {"BlockData"}
      [] tag = TC_BLOCKDATALONG -> {"BlockDataLong"}
      [] OTHER -> {"JavaString", "JavaLongString", "BlockData", "BlockDataLong",
                   "JavaClassDesc", "JavaObject", "JavaArray", "JavaEnum"}

\* C2: at top level a byte is dispatched only when it is one of the six
\* tags TC_OBJECT, TC_STRING, TC_LONGSTRING, TC_BLOCKDATA, TC_BLOCKDATALONG,
\* TC_REFERENCE, and then by the reader of that tag; on any other byte readAll
\* throws "Unsupported type code", the byte is not consumed and nothing
\* else changes.
C2_TopLevelDispatch ==
    [][(Running /\ pos < Len(stream)) =>
          IF stream[pos + 1] \in TopLevelTags
          THEN pc' = "readAll" =>
                   heap'[objects'[Len(objects')].n].kind \in KindsOfTag(stream[pos + 1])
          ELSE /\ pc' = "thrown"
               /\ error' = "Unsupported type code"
               /\ pos' = pos
               /\ heap' = heap /\ references' = references /\ objects' = objects]_vars

C2_Witness ==
    /\ pc = "thrown" /\ error = "Unsupported type code"
    /\ Len(objects) = 1
    /\ pos = starts[Len(starts)]
    /\ stream[pos + 1] = TC_ENUM

\* C3: readAll returns one node per top-level content, in stream order, and
\* returns exactly when no data is left; for the header alone it returns
\* the empty list.
C3_ReadAllResult ==
    pc = "returned" =>
        /\ pos = Len(stream)
        /\ Len(objects) = Len(starts)
        /\ \A i \in 1..Len(starts) :
               /\ starts[i] >= 4
               /\ \A j \in 1..Len(starts) : i < j => starts[i] < starts[j]
               /\ IsRef(objects[i])
               /\ heap[objects[i].n].kind \in KindsOfTag(stream[starts[i] + 1])
               /\ stream[starts[i] + 1] = TC_STRING =>
                      LET len == stream[starts[i] + 2] * 256 + stream[starts[i] + 3]
                      IN heap[objects[i].n].value.s
                             = SubSeq(stream, starts[i] + 4, starts[i] + 3 + len)
        /\ Len(stream) = 4 => objects = <<>>

C3_Witness ==
    /\ pc = "returned"
    /\ Len(objects) = 2
    /\ heap[objects[1].n].kind = "JavaObject"
    /\ heap[objects[2].n].kind = "JavaString"

\* C4: the handles given to the handle-bearing nodes are 0x7E0000 for the
\* first node allocated and one more for each following allocation.
C4_HandlesStartAtBase ==
    \A i \in 1..Len(references) :
        heap[references[i]].handle = Num(baseWireHandle + (i - 1))

\* C5: a reference that carries the handle of an allocated node resolves to
\* the table entry of that node.
C5_ReferenceToOwnHandle ==
    \A e \in EventsNamed("resolved") : \A i \in 1..Len(references) :
        heap[references[i]].handle = Num(events[e].n) => events[e].a = references[i]

Absent(v) == v.t \in {"null", "undefined"}

RECURSIVE NodeEqual(_, _, _)
ValueEqual(h, v, w) ==
    IF IsRef(v) /\ IsRef(w) THEN NodeEqual(h, v.n, w.n)
    ELSE IF Absent(v) /\ Absent(w) THEN TRUE
    ELSE v = w
ListEqual(h, q, r) ==
    Len(q) = Len(r) /\ \A i \in 1..Len(q) : ValueEqual(h, q[i], r[i])
FieldsEqual(h, q, r) ==
    /\ Len(q) = Len(r)
    /\ \A i \in 1..Len(q) :
           /\ q[i].typeCode = r[i].typeCode
           /\ q[i].name = r[i].name
           /\ ValueEqual(h, q[i].className1, r[i].className1)
\* The info of two descriptors: flags, fields, annotation, super class.
InfoEqual(h, x, y) ==
    /\ x.defined = y.defined
    /\ x.flags = y.flags
    /\ FieldsEqual(h, x.fields, y.fields)
    /\ ListEqual(h, x.annotation, y.annotation)
    /\ ValueEqual(h, x.superClass, y.superClass)
\* Two nodes are of one class and equal in the data fields other than their
\* own serialVersionUID; the nodes they hold are compared in full.
NodeEqualButUID(h, a, b) ==
    /\ h[a].kind = h[b].kind
    /\ h[a].value = h[b].value
    /\ h[a].className = h[b].className
    /\ InfoEqual(h, h[a].info, h[b].info)
    /\ ValueEqual(h, h[a].description, h[b].description)
    /\ ListEqual(h, h[a].values, h[b].values)
    /\ ValueEqual(h, h[a].constant, h[b].constant)
    /\ h[a].data = h[b].data
NodeEqual(h, a, b) ==
    /\ NodeEqualButUID(h, a, b)
    /\ h[a].serialVersionUID = h[b].serialVersionUID

\* C6: the node a reference resolves to is, when it is resolved, equal to
\* the node stored under the handle in every data field: string value;
\* descriptor name, serialVersionUID, flags, fields, annotation and super
\* descriptor; description, array values and enum constant.
C6_ReferenceFidelity ==
    \A e \in EventsNamed("resolved") :
        NodeEqual(events[e].heap, events[e].a, events[e].b)

\* C7: the node made for a reference has the handle of the node it
\* resolves to.
C7_ReferenceKeepsHandle ==
    \A e \in EventsNamed("resolved") :
        events[e].heap[events[e].b].handle = events[e].heap[events[e].a].handle

\* A handle outside a table of the given length.
OutOfRange(handle, len) == handle < 8257536 \/ handle >= 8257536 + len

\* C8: a reference whose handle is below 0x7E0000, or at or above 0x7E0000
\* plus the length of the handle table, ends decoding with an error where-
\* ever it stands; no node and no undefined value comes of it.
C8_BadHandleThrows ==
    \A e \in EventsNamed("reference") :
        OutOfRange(events[e].n, events[e].p) => pc = "thrown" /\ e = Len(events)

\* The reference out of range stands inside an object.
C8_Witness ==
    /\ pc = "thrown"
    /\ Len(events) >= 1
    /\ events[Len(events)].ev = "reference"
    /\ events[Len(events)].n >= 8257536 + events[Len(events)].p
    /\ stream[starts[Len(starts)] + 1] = TC_OBJECT

\* C9: the class data read for an object is never overwritten: the values
\* of a hierarchy level stay as they were when they had been read, and the
\* values and the annotation of a level stay as they were when its
\* annotation had been read, whatever is decoded later, inside the object
\* or after it; and a content leaves the class data of every descriptor
\* that existed before it as it was.
C9_ClassDataKept ==
    /\ \A e \in EventsNamed("values") :
           heap[events[e].a].classData.values = events[e].heap[1].classData.values
    /\ \A e \in EventsNamed("annotation") :
           heap[events[e].a].classData = events[e].heap[1].classData

\* Two objects of one descriptor, the second naming it by reference, with
\* different values.
C9_Witness ==
    \E i \in EventsNamed("values"), j \in EventsNamed("resolved"),
       k \in EventsNamed("values") :
        /\ i < j /\ j < k
        /\ events[j].a = events[i].a
        /\ events[k].a = events[j].b
        /\ heap[events[i].a].classData.values # heap[events[k].a].classData.values

\* The names of what readClassData did at the level of descriptor a.
LevelSteps == {"level", "values", "externalContents", "annotation", "levelDone"}
StepsAt(a) ==
    LET AtLevel(e) == e.ev \in LevelSteps /\ e.a = a
    IN SelectSeq(events, AtLevel)
StepNames(a) == [i \in 1..Len(StepsAt(a)) |-> StepsAt(a)[i].ev]
IsPrefix(q, r) == Len(q) <= Len(r) /\ SubSeq(r, 1, Len(q)) = q
FieldNames(c) == {c.info.fields[i].name.s : i \in 1..Len(c.info.fields)}
\* The field values read for the level of descriptor a, as indices into
\* the log.
FieldsOf(a) == {e \in EventsNamed("field") : events[e].a = a}
ValueNames(c) == {c.classData.values[i].name : i \in 1..Len(c.classData.values)}

\* What the state machine prescribes for a level with the given flags.
StepsOfFlags(c) ==
    IF hasFlag(c, SC_SERIALIZABLE)
    THEN IF hasFlag(c, SC_WRITE_METHOD)
         THEN <<"level", "values", "annotation", "levelDone">>
         ELSE <<"level", "values", "levelDone">>
    ELSE IF hasFlag(c, SC_BLOCKDATA)
         THEN <<"level", "annotation", "levelDone">>
         ELSE <<"level", "externalContents">>

OneKind(c) == hasFlag(c, SC_SERIALIZABLE) # hasFlag(c, SC_EXTERNALIZABLE)

NeitherKind(c) == ~hasFlag(c, SC_SERIALIZABLE) /\ ~hasFlag(c, SC_EXTERNALIZABLE)
BothKinds(c) == hasFlag(c, SC_SERIALIZABLE) /\ hasFlag(c, SC_EXTERNALIZABLE)

\* C11: a hierarchy level whose descriptor has neither SC_SERIALIZABLE nor
\* SC_EXTERNALIZABLE ends decoding with an error at that level; the level
\* is never passed with no class data read.
C11_NeitherKindFails ==
    \A e \in EventsNamed("level") :
        NeitherKind(heap[events[e].a]) =>
            /\ pc = "thrown"
            /\ StepNames(events[e].a) = <<"level">>

ElementsOf(start) == {e \in EventsNamed("element") : events[e].a = start}

\* C13: an annotation region that was read ends just after a
\* TC_ENDBLOCKDATA byte; its elements lie end to end from the start of the
\* region up to that byte, none of them begins with TC_ENDBLOCKDATA, and
\* the list returned holds them in stream order.
C13_AnnotationDelimited ==
    \A g \in EventsNamed("region") :
        LET start == events[g].n
            end == events[g].p
            count == events[g].b
            At(i) == CHOOSE e \in ElementsOf(start) : events[e].b = i
        IN /\ end >= 1 /\ stream[end] = TC_ENDBLOCKDATA
           /\ {events[e].b : e \in ElementsOf(start)} = 1..count
           /\ Cardinality(ElementsOf(start)) = count
           /\ \A i \in 1..count :
                  /\ events[At(i)].n = (IF i = 1 THEN start ELSE events[At(i - 1)].p)
                  /\ events[At(i)].p > events[At(i)].n
                  /\ stream[events[At(i)].n + 1] # TC_ENDBLOCKDATA
                  /\ events[At(i)].heap[1] = events[g].heap[i]
           /\ end - 1 = (IF count = 0 THEN start ELSE events[At(count)].p)

\* A region with an element that holds a 0x78 byte inside it.
C13_Witness ==
    \E g \in EventsNamed("region") :
        \E e \in ElementsOf(events[g].n) :
            \E j \in 1..Len(stream) :
                /\ events[e].n + 1 < j /\ j <= events[e].p
                /\ stream[j] = TC_ENDBLOCKDATA

\* C14: the length byte of a TC_BLOCKDATA is read as unsigned: for every
\* length byte b in 0..255, decoding a TC_BLOCKDATA with b payload bytes
\* succeeds and the BlockData holds exactly those b bytes.
C14_BlockSizeUnsigned ==
    (stream \in BlockSizeInputs /\ Len(starts) >= 1) =>
        /\ Len(objects) >= 1
        /\ heap[objects[1].n].data = Bytes(SubSeq(stream, 7, 6 + stream[6]))

NoHandleProductions == {"TC_BLOCKDATA", "TC_BLOCKDATALONG", "TC_NULL", "TC_REFERENCE"}

\* C15: reading a TC_BLOCKDATA, a TC_BLOCKDATALONG or a TC_NULL, or
\* resolving a TC_REFERENCE, leaves the handle table and the next handle as
\* they were, and the clone returned for a reference is not in the table.
C15_NoHandleNoChange ==
    /\ \A e \in 1..Len(events) :
           events[e].ev \in NoHandleProductions =>
               /\ events[e].heap[1] = events[e].heap[2]
               /\ events[e].a = events[e].b
               /\ events[e].n = events[e].p
    /\ \A e \in EventsNamed("resolved") :
           \A i \in 1..Len(references) : references[i] # events[e].b

\* Each of the four productions has been read while the table held handles.
C15_Witness ==
    \A production \in NoHandleProductions :
        \E e \in EventsNamed(production) : events[e].a >= 1

\* C16: an array that was decoded with size n >= 0 holds exactly n values;
\* for a byte array they are the n bytes that follow the size, in order,
\* each read as a signed byte.
C16_ArrayHoldsSizeValues ==
    \A e \in EventsNamed("array") :
        LET array == events[e].heap[1]
            size == events[e].n
        IN size >= 0 =>
               /\ Len(array.values) = size
               /\ events[e].b = 66 =>
                      \A i \in 1..size :
                          array.values[i] = Num(ToInt8(stream[events[e].p - size + i]))

\* Value v, read from cursor n to cursor p, is what the field type code
\* (a character) reads from the bytes there.
ReadAs(typeCode, v, n, p) ==
    CASE typeCode = 66 -> p = n + 1 /\ v = Num(ToInt8(stream[n + 1]))
      [] typeCode = 67 -> p = n + 2 /\ v = Str(<<ToUInt16(stream[n + 1], stream[n + 2])>>)
      [] typeCode = 68 -> p = n + 8 /\ v.t = "double"
      [] typeCode = 70 -> p = n + 4 /\ v.t = "float"
      [] typeCode = 73 -> p = n + 4 /\ v = Num(ToInt32(SubSeq(stream, n + 1, n + 4)))
      [] typeCode = 74 -> p = n + 8 /\ v.t = "bigint"
      [] typeCode = 83 -> p = n + 2 /\ v = Num(ToInt16(stream[n + 1], stream[n + 2]))
      [] typeCode = 90 -> p = n + 1 /\ v = Bool(stream[n + 1] # 0)
      [] typeCode \in {76, 91} -> p > n /\ v.t \in {"ref", "null"}
      [] OTHER -> FALSE

\* C17: when the field values of a Serializable level have been read, one
\* value was read for each declared field, in declared order, end to end
\* from the start of the level, each as its field's type code says, and
\* classData.values holds exactly one entry for each declared field name,
\* with the value read for it; for a level that is Externalizable and not
\* Serializable no field value is read.
C17_ValuesPerField ==
    /\ \A e \in EventsNamed("values") :
           LET a == events[e].a
               c == events[e].heap[1]
               fields == c.info.fields
               values == c.classData.values
               level == CHOOSE l \in EventsNamed("level") : events[l].a = a
               At(i) == events[CHOOSE f \in FieldsOf(a) : events[f].b = i]
               Last(name) == CHOOSE i \in 1..Len(fields) :
                                 /\ fields[i].name.s = name
                                 /\ \A k \in (i + 1)..Len(fields) : fields[k].name.s # name
           IN /\ {events[f].b : f \in FieldsOf(a)} = 1..Len(fields)
              /\ Cardinality(FieldsOf(a)) = Len(fields)
              /\ \A i \in 1..Len(fields) :
                     /\ At(i).n = (IF i = 1 THEN events[level].p ELSE At(i - 1).p)
                     /\ ReadAs(fields[i].typeCode.s[1], At(i).heap[1], At(i).n, At(i).p)
              /\ events[e].p = (IF fields = <<>> THEN events[level].p ELSE At(Len(fields)).p)
              /\ ValueNames(c) = FieldNames(c)
              /\ Len(values) = Cardinality(FieldNames(c))
              /\ \A k \in 1..Len(values) :
                     values[k].name \in FieldNames(c) =>
                         values[k].value = At(Last(values[k].name)).heap[1]
    /\ \A l \in EventsNamed("level") :
           LET c == heap[events[l].a]
           IN (hasFlag(c, SC_EXTERNALIZABLE) /\ ~hasFlag(c, SC_SERIALIZABLE)) =>
                  /\ FieldsOf(events[l].a) = {}
                  /\ c.classData.values = <<>>

\* C18: an error raised while readAll decodes a content element ends the
\* call: readAll throws, nothing is done after it and no list is returned,
\* however many contents were decoded before; a list is returned only when
\* every content element read was decoded without error.
C18_ErrorsSurface ==
    [][/\ pc # "thrown"
       /\ error' # "" => (pc' \in {"thrown", "noDecoder"} /\ objects' = objects)
       /\ pc' = "returned" => (error' = "" /\ Len(objects') = Len(starts'))]_vars

\* readAll threw after it had decoded a content element.
C18_Witness == pc = "thrown" /\ error # "" /\ Len(objects) >= 1

C20_GrammarTotality == stream \in ProtocolInputs => pc # "thrown"

\* The value of field x of the first object returned, and the number of
\* bytes its read consumed.
DecodedX == heap[heap[objects[1].n].description.n].classData.values[1].value
WidthX ==
    LET f == events[CHOOSE e \in EventsNamed("field") : TRUE]
    IN f.p - f.n

\* The stream is an object of class V whose field, of the given type code,
\* was written as the given bytes, and readAll has returned.
Decoded(typeCode, bytes) == pc = "returned" /\ stream = PrimitiveInput(typeCode, bytes)

\* C21: a field value of a primitive type, written as Java writes it, is
\* read back as the value written, from as many bytes as the type has:
\* byte 1, short 2, int 4, long 8, boolean 1, char 2 (an unsigned code
\* unit), float 4, double 8.
C21_PrimitiveRoundTrip ==
    stream \in PrimitiveInputs =>
        /\ \A v \in ByteSamples :
               Decoded(66, WriteByte(v)) => (DecodedX = Num(v) /\ WidthX = 1)
        /\ \A v \in ShortSamples :
               Decoded(83, WriteShort(v)) => (DecodedX = Num(v) /\ WidthX = 2)
        /\ \A v \in IntSamples :
               Decoded(73, WriteInt(v)) => (DecodedX = Num(v) /\ WidthX = 4)
        /\ \A v \in LongSamples :
               Decoded(74, WriteLong(v)) => (DecodedX = BigInt(v) /\ WidthX = 8)
        /\ \A v \in BOOLEAN :
               Decoded(90, WriteBoolean(v)) => (DecodedX = Bool(v) /\ WidthX = 1)
        /\ \A v \in CharSamples :
               Decoded(67, WriteShort(v)) => (DecodedX = Str(<<v>>) /\ WidthX = 2)
        /\ \A v \in FloatSamples :
               Decoded(70, WriteInt(v)) => (DecodedX = Float(v) /\ WidthX = 4)
        /\ \A v \in DoubleSamples :
               Decoded(68, WriteLong(v)) => (DecodedX = Double(v) /\ WidthX = 8)
        /\ pc \notin {"thrown", "noDecoder"}

\* The short -32768, the least of its type, has been read back.
C21_Witness == Decoded(83, WriteShort(-32767 - 1)) /\ DecodedX = Num(-32767 - 1)

\* The handles given to cells of the given kind, and the productions read
\* to their end for the cell at address a, as indices into the log.
HandlesOf(kind) == {e \in EventsNamed("newHandle") : heap[events[e].a].kind = kind}
NodesAt(a) == {g \in EventsNamed("node") : events[g].a = a}
\* The handles given while the cursor went from after p to q.
HandlesWithin(p, q) ==
    {f \in EventsNamed("newHandle") : events[f].p > p /\ events[f].p <= q}

\* C22: a class descriptor is given its handle when the cursor stands just
\* after its tag, its name and its serialVersionUID; every handle given
\* from there to the end of the descriptor (for the class names of its
\* fields, in its annotation, in its super class) is greater than its own.
C22_DescriptorHandleBeforeInfo ==
    \A e \in HandlesOf("JavaClassDesc") :
        LET a == events[e].a
            name == heap[a].className.s
            start == events[e].p - 11 - Len(name)
        IN /\ start >= 4
           /\ stream[start + 1] = TC_CLASSDESC
           /\ SubSeq(stream, start + 2, start + 3) = U16(Len(name))
           /\ toString(SubSeq(stream, start + 4, start + 3 + Len(name))) = name
           /\ \A g \in NodesAt(a) :
                  /\ events[g].n = start
                  /\ events[g].p > events[e].p
                  /\ \A f \in HandlesWithin(events[e].p, events[g].p) :
                         events[f].n > events[e].n

\* A descriptor has been read inside which a field's class name, a string
\* of the annotation and the super class were given handles.
C22_Witness ==
    \E e \in HandlesOf("JavaClassDesc") :
        \E g \in NodesAt(events[e].a) :
            /\ Cardinality(HandlesWithin(events[e].p, events[g].p)) >= 3
            /\ \E f \in HandlesWithin(events[e].p, events[g].p) :
                   heap[events[f].a].kind = "JavaClassDesc"

\* The hierarchy levels and the field values whose reading began with the
\* cursor after p and before q.
LevelsWithin(p, q) == {l \in EventsNamed("level") : events[l].p > p /\ events[l].p < q}
FieldsWithin(p, q) == {l \in EventsNamed("field") : events[l].n > p /\ events[l].n < q}

\* The classDesc that begins at cursor p ends at cursor q: a TC_NULL, a
\* TC_REFERENCE with its handle, or a new descriptor read to its end.
ClassDescFromTo(p, q) ==
    CASE stream[p + 1] = TC_NULL -> q = p + 1
      [] stream[p + 1] = TC_REFERENCE -> q = p + 5
      [] OTHER -> \E d \in EventsNamed("node") :
                      /\ heap[events[d].a].kind = "JavaClassDesc"
                      /\ events[d].n = p /\ events[d].p = q

\* C23: an object is given its handle when the cursor stands at the end of
\* its classDesc, before any of its class data is read: the handles given
\* inside the classDesc are smaller than the object's, those given inside
\* its field values and annotations are greater.
C23_ObjectHandleAfterDescriptor ==
    \A e \in HandlesOf("JavaObject") :
        \A g \in NodesAt(events[e].a) :
            LET start == events[g].n
                at == events[e].p
                end == events[g].p
            IN /\ stream[start + 1] = TC_OBJECT
               /\ ClassDescFromTo(start + 1, at)
               /\ \A f \in HandlesWithin(start, at) \ {e} : events[f].n < events[e].n
               /\ \A f \in HandlesWithin(at, end) : events[f].n > events[e].n
               /\ LevelsWithin(start, at) = {}
               /\ FieldsWithin(start, at) = {}

\* An object has been read with handles given inside its classDesc and
\* inside its class data.
C23_Witness ==
    \E e \in HandlesOf("JavaObject") :
        \E g \in NodesAt(events[e].a) :
            /\ Cardinality(HandlesWithin(events[g].n, events[e].p) \ {e}) >= 2
            /\ HandlesWithin(events[e].p, events[g].p) # {}
            /\ FieldsWithin(events[e].p - 1, events[g].p) # {}

\* The log records named ev that are about the hierarchy level of the
\* descriptor at address d.
LevelEvents(ev, d) == {l \in EventsNamed(ev) : events[l].a = d}
\* Every log record about what a level holds: its beginning, its field
\* values, its annotation and its end.
LevelContents(d) ==
    LevelEvents("level", d) \cup LevelEvents("field", d) \cup LevelEvents("values", d)
        \cup LevelEvents("annotation", d) \cup LevelEvents("levelDone", d)

\* C24: the class data of an object is read from the top of the hierarchy
\* down.  For the chain desc, desc.super, ..., root of an object that has
\* its handle, the reading of class data begins with the root's level at
\* the cursor where the handle was given; a level is begun only when the
\* level of its super class has been finished, at the cursor where that one
\* ended; and everything read for a level (field values, annotation) is
\* read before anything of a more derived level.
C24_ClassDataTopFirst ==
    \A e \in HandlesOf("JavaObject") :
        LET chain == classHierarchy(heap, heap[events[e].a].description)
            n == Len(chain)
        IN /\ n > 0 =>
                  \A l \in LevelEvents("level", chain[n]) :
                      events[l].p = events[e].p /\ l > e
           /\ \A i \in 1..(n - 1) :
                  \A l \in LevelEvents("level", chain[i]) :
                      \E d \in LevelEvents("levelDone", chain[i + 1]) :
                          d < l /\ events[d].p = events[l].p
           /\ \A i \in 1..n : \A j \in (i + 1)..n :
                  \A x \in LevelContents(chain[i]) : \A y \in LevelContents(chain[j]) :
                      y < x

\* An object of a class with a super class has been read whole: the level
\* of the super class held a field value and the level of the class a field
\* value and an annotation.
C24_Witness ==
    \E e \in HandlesOf("JavaObject") :
        LET chain == classHierarchy(heap, heap[events[e].a].description)
        IN /\ Len(chain) = 2
           /\ LevelEvents("field", chain[2]) # {}
           /\ LevelEvents("levelDone", chain[2]) # {}
           /\ LevelEvents("field", chain[1]) # {}
           /\ LevelEvents("annotation", chain[1]) # {}
           /\ LevelEvents("levelDone", chain[1]) # {}
           /\ NodesAt(events[e].a) # {}

\* The handles given inside the production that went from cursor start to
\* cursor end are smaller than that of e when given before cursor at, where
\* e was given, and greater when given after it.
HandleBetween(e, start, at, end) ==
    /\ events[e].p = at
    /\ \A f \in HandlesWithin(start, at) \ {e} : events[f].n < events[e].n
    /\ \A f \in HandlesWithin(at, end) : events[f].n > events[e].n

\* C25: an array and an enum are given their handle when the cursor stands
\* at the end of their classDesc, before the size and the elements or the
\* constant name are read, so that the handles given to the elements and to
\* a new constant string are greater; a string and a long string are given
\* their handle when only their tag has been read.
C25_ArrayEnumStringHandles ==
    /\ \A e \in HandlesOf("JavaArray") :
           \A g \in NodesAt(events[e].a) :
               LET start == events[g].n
                   at == events[e].p
               IN /\ stream[start + 1] = TC_ARRAY
                  /\ ClassDescFromTo(start + 1, at)
                  /\ HandleBetween(e, start, at, events[g].p)
                  /\ events[g].p >= at + 4
                  /\ \A r \in EventsNamed("array") :
                         events[r].a = events[e].a =>
                             SubSeq(stream, at + 1, at + 4) = WriteInt(events[r].n)
    /\ \A e \in HandlesOf("JavaEnum") :
           \A g \in NodesAt(events[e].a) :
               LET start == events[g].n
                   at == events[e].p
                   constant == heap[events[e].a].constant
               IN /\ stream[start + 1] = TC_ENUM
                  /\ ClassDescFromTo(start + 1, at)
                  /\ HandleBetween(e, start, at, events[g].p)
                  /\ events[g].p > at
                  /\ stream[at + 1] \in {TC_STRING, TC_LONGSTRING} =>
                         \E f \in EventsNamed("newHandle") :
                             /\ events[f].a = constant.n
                             /\ events[f].p = at + 1
                             /\ events[f].n > events[e].n
    /\ \A e \in HandlesOf("JavaString") :
           /\ stream[events[e].p] = TC_STRING
           /\ \A g \in NodesAt(events[e].a) :
                  /\ events[g].n = events[e].p - 1
                  /\ events[g].p = events[e].p + 2 + Len(heap[events[e].a].value.s)
    /\ \A e \in HandlesOf("JavaLongString") :
           /\ stream[events[e].p] = TC_LONGSTRING
           /\ \A g \in NodesAt(events[e].a) :
                  /\ events[g].n = events[e].p - 1
                  /\ events[g].p = events[e].p + 8 + Len(heap[events[e].a].value.s)

\* An array of two new strings has been read, then an enum with a new
\* descriptor and a new constant string.
C25_Witness ==
    /\ \E e \in HandlesOf("JavaArray") :
           \E g \in NodesAt(events[e].a) :
               /\ HandlesWithin(events[g].n, events[e].p) \ {e} # {}
               /\ Cardinality(HandlesWithin(events[e].p, events[g].p)) = 2
    /\ \E e \in HandlesOf("JavaEnum") :
           \E g \in NodesAt(events[e].a) :
               /\ HandlesWithin(events[g].n, events[e].p) \ {e} # {}
               /\ \E f \in HandlesWithin(events[e].p, events[g].p) :
                      heap[events[f].a].kind = "JavaLongString"

\* C26: a reference inside a descriptor's info, in its class annotation or
\* as its super class, to the handle of the descriptor being read is
\* resolved without error: decoding such a stream does not throw.
C26_SelfReferenceInDescriptor == stream \in SelfReferenceInputs => pc # "thrown"

\* Two values are alike: the same primitive value, or an object each.
SameValue(v, w) == v.t = w.t /\ (IsRef(v) \/ v = w)
\* The class data of two levels is alike: the same field names with like
\* values in the same order, and as many annotation elements.
SameLevel(c, d) ==
    /\ Len(c.classData.values) = Len(d.classData.values)
    /\ \A i \in 1..Len(c.classData.values) :
           /\ c.classData.values[i].name = d.classData.values[i].name
           /\ SameValue(c.classData.values[i].value, d.classData.values[i].value)
    /\ Len(c.classData.annotation) = Len(d.classData.annotation)
\* The objects at addresses x and y carry the same class data at every
\* level of their hierarchies.
SameClassData(x, y) ==
    LET cx == classHierarchy(heap, heap[x].description)
        cy == classHierarchy(heap, heap[y].description)
    IN /\ Len(cx) = Len(cy)
       /\ \A i \in 1..Len(cx) : SameLevel(heap[cx[i]], heap[cy[i]])

\* The references resolved to an object while the class data of that very
\* object was being read: the cursor stood after the place the object was
\* given its handle at and within the object.
OwnReferences ==
    {r \in EventsNamed("resolved") :
         /\ heap[events[r].a].kind = "JavaObject"
         /\ \E e \in HandlesOf("JavaObject") : \E g \in NodesAt(events[r].a) :
                /\ events[e].a = events[r].a
                /\ events[r].p > events[e].p /\ events[r].p <= events[g].p}

\* C27: a reference inside an object's own class data to the object's
\* handle resolves to this object: decoding such a stream finishes, and the
\* node the reference gave then carries the same class data as the object,
\* at every level.
C27_OwnReferenceIsThisObject ==
    /\ stream \in OwnReferenceInputs => pc # "thrown"
    /\ pc = "returned" =>
           \A r \in OwnReferences : SameClassData(events[r].a, events[r].b)

\* The tags a field value of type code '[' and of type code 'L' begins with.
ArrayFieldTags == {TC_NULL, TC_ARRAY, TC_REFERENCE}
ObjectFieldTags == {TC_NULL, TC_OBJECT, TC_STRING, TC_REFERENCE, TC_ENUM}
UnsupportedArrayField == "Unsupported readArrayFieldValue type code"
UnsupportedObjectField == "Unsupported readObjectFieldValue type code"

\* The byte b where the value of a field of the given kind begins, as the
\* last byte of the stream: a tag that is not accepted makes decoding fail
\* with the cursor left before it, an accepted one is consumed (and what
\* follows it is missing, apart from TC_NULL, which is the whole value).
FieldTagOutcome(tags, unsupported) ==
    LET b == stream[Len(stream)]
    IN pc \notin {"new", "constructed"} =>
           IF b \in tags
           THEN /\ error # unsupported
                /\ pos = Len(stream)
                /\ b = TC_NULL <=> pc # "thrown"
           ELSE pc = "thrown" /\ error = unsupported /\ pos = Len(stream) - 1

\* C28: where a field value begins, the tags accepted are TC_NULL, TC_ARRAY
\* and TC_REFERENCE for type code '[' and TC_NULL, TC_OBJECT, TC_STRING,
\* TC_REFERENCE and TC_ENUM for type code 'L'.  Every field value of these
\* type codes that was read began with an accepted tag; decoding failed for
\* an unsupported tag only where the byte at the cursor, left unconsumed,
\* is not an accepted one; every other byte in that place makes decoding
\* fail so; and TC_NULL gives null after one byte.
C28_FieldValueTags ==
    /\ \A f \in EventsNamed("field") :
           LET typeCode == heap[events[f].a].info.fields[events[f].b].typeCode.s
               tag == stream[events[f].n + 1]
           IN /\ typeCode = <<91>> => tag \in ArrayFieldTags
              /\ typeCode = <<76>> => tag \in ObjectFieldTags
              /\ typeCode \in {<<91>>, <<76>>} /\ tag = TC_NULL =>
                     events[f].heap = <<Null>> /\ events[f].p = events[f].n + 1
    /\ pc = "thrown" /\ error = UnsupportedArrayField =>
           stream[pos + 1] \notin ArrayFieldTags
    /\ pc = "thrown" /\ error = UnsupportedObjectField =>
           stream[pos + 1] \notin ObjectFieldTags
    /\ stream \in ArrayFieldTagInputs =>
           FieldTagOutcome(ArrayFieldTags, UnsupportedArrayField)
    /\ stream \in ObjectFieldTagInputs =>
           FieldTagOutcome(ObjectFieldTags, UnsupportedObjectField)

\* Decoding failed on TC_ARRAY where the value of a field of type code 'L'
\* begins, the byte not consumed.
C28_Witness ==
    /\ stream \in ObjectFieldTagInputs
    /\ stream[Len(stream)] = TC_ARRAY
    /\ pc = "thrown" /\ error = UnsupportedObjectField
    /\ pos = Len(stream) - 1

\* C29: a field descriptor whose type code is not one of B C D F I J S Z
\* [ L makes decoding fail with the error of a bad field type, whether or
\* not a value of the field is read: a stream with such a descriptor never
\* gets past its first content, and fails with that error.
C29_BadFieldTypeFails ==
    stream \in BadFieldTypeInputs /\ pc \notin {"new", "constructed"} =>
        pc = "thrown" /\ error = "Unsupported field type"

\* C30: the field count of a class descriptor is an unsigned 16-bit
\* number: a descriptor read to its end has as many field descriptors as
\* the two bytes after its flags say, read as a big-endian number from 0 to
\* 65535.
C30_FieldCountUnsigned ==
    \A e \in HandlesOf("JavaClassDesc") :
        \A g \in NodesAt(events[e].a) :
            LET at == events[e].p
            IN Len(heap[events[e].a].info.fields)
                   = stream[at + 2] * 256 + stream[at + 3]

\* The class descriptors of the heap: those of the handle table, those of
\* the result and the clones references gave.
ClassDescs == {a \in 1..Len(heap) : heap[a].kind = "JavaClassDesc"}

\* C31: the chain of super classes of every class descriptor is finite and
\* acyclic: following info.superClass from the descriptor ends at null (or
\* at no descriptor) without coming to a descriptor twice.
C31_SuperChainAcyclic ==
    \A a \in ClassDescs :
        LET chain == classHierarchy(heap, Ref(a))
        IN /\ Len(chain) <= Len(heap)
           /\ \A i \in 1..Len(chain) : \A j \in 1..Len(chain) :
                  i # j => chain[i] # chain[j]

\* Decoding has returned with a descriptor of the handle table that has a
\* super class, and a clone of such a descriptor, made for a reference.
C31_Witness ==
    /\ pc = "returned"
    /\ \E a \in ClassDescs :
           /\ \E k \in 1..Len(references) : references[k] = a
           /\ Len(classHierarchy(heap, Ref(a))) = 2
    /\ \E b \in ClassDescs :
           /\ \A k \in 1..Len(references) : references[k] # b
           /\ \E r \in EventsNamed("resolved") : events[r].b = b
           /\ Len(classHierarchy(heap, Ref(b))) = 2

\* The nodes that bear a handle, and the table as it ought to be: as long
\* as there are such nodes and as the handles given so far, its entries
\* different nodes whose handles go up by one from entry to entry.
HandleBearing == {a \in 1..Len(heap) : heap[a].handle # Undefined}
TableDense ==
    /\ Len(references) = Cardinality(HandleBearing)
    /\ Len(references) = Cardinality(EventsNamed("newHandle"))
    /\ Len(references) = currentHandle - baseWireHandle
    /\ \A k \in 1..Len(references) : references[k] \in HandleBearing
    /\ \A k \in 1..Len(references) : \A l \in 1..Len(references) :
           /\ k # l => references[k] # references[l]
           /\ k # l => heap[references[k]].handle # heap[references[l]].handle
           /\ l = k + 1 =>
                  heap[references[l]].handle.n = heap[references[k]].handle.n + 1

\* C32: the handle table is dense and append-only.  In every state its
\* length is the number of nodes bearing a handle and currentHandle less
\* 0x7E0000, and the handles of its entries are distinct and go up by one
\* with the index; in every step the table before is a prefix of the table
\* after, and an entry keeps the handle it has.
C32_TableDenseAppendOnly ==
    /\ []TableDense
    /\ [][/\ IsPrefix(references, references')
          /\ \A k \in 1..Len(references) :
                 heap'[references[k]].handle = heap[references[k]].handle]_vars

\* The table holds three handles or more and the heap a clone, which
\* bears none, of one of its entries.
C32_Witness ==
    /\ Len(references) >= 3
    /\ \E r \in EventsNamed("resolved") :
           /\ events[r].b \notin HandleBearing
           /\ \E k \in 1..Len(references) : references[k] = events[r].a

\* A decoder that runs alone over the given bytes: what it holds once it is
\* constructed and readAll has made the given number of turns of its loop.
AloneStart(bytes) ==
    [stream |-> bytes, pos |-> 0, heap |-> <<>>, references |-> <<>>,
     currentHandle |-> initialHandle, thrown |-> FALSE, error |-> "",
     ret |-> Undefined, events |-> <<>>, source |-> source]
RECURSIVE Alone(_, _)
Alone(bytes, turns) ==
    LET afterElement(before, r) ==
            [s |-> r,
             objects |-> IF r.thrown THEN before.objects ELSE Append(before.objects, r.ret)]
        turn(before) ==
            afterElement(before, readContentElement([before.s EXCEPT !.ret = Undefined]))
    IN IF turns = 0 THEN [s |-> constructor(AloneStart(bytes)), objects |-> <<>>]
       ELSE turn(Alone(bytes, turns - 1))

\* The turns of the loop a decoder has made, and whether what a decoder
\* holds (d: its pc, cursor, nodes, handle table, next handle, list and
\* error) is what it holds at that point when it runs alone.
Turns(d) == Len(d.objects) + (IF d.pc = "thrown" THEN 1 ELSE 0)
SameAs(d, alone) ==
    CASE d.pc = "new" ->
             d.pos = 0 /\ d.references = <<>> /\ d.currentHandle = initialHandle
                 /\ d.objects = <<>>
      [] d.pc = "noDecoder" -> alone.s.thrown /\ d.error = alone.s.error
      [] OTHER ->
             /\ d.pos = alone.s.pos
             /\ d.heap = alone.s.heap
             /\ d.references = alone.s.references
             /\ d.currentHandle = alone.s.currentHandle
             /\ d.objects = alone.objects
             /\ d.error = alone.s.error
             /\ (d.pc = "thrown") = (Turns(d) > 0 /\ alone.s.thrown)
             /\ d.pc = "returned" => ~hasDataLeft(alone.s)
AsAlone(d, bytes) == SameAs(d, Alone(bytes, IF d.pc = "new" THEN 0 ELSE Turns(d)))
\* The first decoder, as a record of the same shape as the second.
First ==
    [stream |-> stream, pos |-> pos, heap |-> heap, references |-> references,
     currentHandle |-> currentHandle, objects |-> objects, pc |-> pc, error |-> error,
     events |-> events]

RefsIn(q) == {q[i].n : i \in {j \in 1..Len(q) : IsRef(q[j])}}
Pointers(h, x) ==
    RefsIn(<<h[x].description, h[x].constant, h[x].info.superClass>>)
        \cup RefsIn(h[x].values)
        \cup RefsIn([i \in 1..Len(h[x].info.fields) |-> h[x].info.fields[i].className1])
        \cup RefsIn(h[x].info.annotation)
        \cup RefsIn([i \in 1..Len(h[x].classData.values) |->
                        h[x].classData.values[i].value])
        \cup RefsIn(h[x].classData.annotation)
\* Every node reached from the nodes of set by following pointers.
RECURSIVE Reach(_, _)
Reach(h, set) ==
    LET more == set \cup UNION {Pointers(h, x) : x \in set}
    IN IF more = set THEN set ELSE Reach(h, more)

\* C34: the node a reference gives is a deep clone of the entry of the
\* handle table.  When it is made, it and all it points to are new nodes,
\* none of them the entry or a node the entry points to; it never comes to
\* point to a node older than itself; and a content never changes a node
\* that existed before it, so that what is written into a clone leaves the
\* entry and the nodes decoded earlier as they were.
C34_ReferenceIsDeepClone ==
    /\ [](\A r \in EventsNamed("resolved") :
             LET a == events[r].a
                 b == events[r].b
                 then == events[r].heap
             IN /\ a < b
                /\ \A x \in Reach(then, {b}) : x >= b
                /\ \A x \in Reach(then, {a}) : x < b \/ x \in Reach(then, {b})
                /\ \A x \in Reach(heap, {b}) : x >= b)
    /\ [][IsPrefix(heap, heap')]_vars

\* A reference gave a clone that points to nodes of its own, the entry
\* pointing to as many, and a clone whose class data was written
\* afterwards.
C34_Witness ==
    /\ \E r \in EventsNamed("resolved") :
           /\ Cardinality(Reach(heap, {events[r].b})) >= 2
           /\ Cardinality(Reach(heap, {events[r].a})) >= 2
    /\ \E r \in EventsNamed("resolved") : \E v \in EventsNamed("values") :
           events[v].a = events[r].b /\ v > r

\* C35: decoding ends on a finite stream: the constructor throws, or
\* readAll returns or throws, after finitely many turns of its loop; a turn
\* that does not throw leaves the cursor further on than it found it.
C35_Terminates ==
    /\ <>Finished
    /\ [][pc' = "readAll" => pos' > pos]_vars

\* The data of the class description of the object or array at address o
\* of heap h: the cell that class.data is, if there is one.
ClassData(h, o) ==
    IF IsRef(h[o].class) /\ IsRef(h[h[o].class.n].data)
    THEN <<h[h[h[o].class.n].data.n]>>
    ELSE <<>>

\* C36: in the older decoder, the class.data of every object and array
\* that readObject has read stays what it was when its reading ended,
\* whatever is read afterwards.
C36_EarlierDataKept ==
    \A e \in EventsNamed("read") :
        ClassData(heap, events[e].a) = ClassData(events[e].heap, events[e].a)

\* A level of the hierarchy whose data must end with TC_ENDBLOCKDATA: it
\* is SC_SERIALIZABLE with SC_WRITE_METHOD, or has SC_BLOCK_DATA.
EndBlockExpected(flags) ==
    \/ BitSet(flags, SC_SERIALIZABLE) /\ BitSet(flags, SC_WRITE_METHOD)
    \/ BitSet(flags, SC_BLOCKDATA)

\* The level whose data ended with event i went on to its end, the
\* cursor n bytes further.
LevelEnded(i, n) ==
    /\ i < Len(events)
    /\ events[i + 1].ev = "levelEnd"
    /\ events[i + 1].a = events[i].a
    /\ events[i + 1].p = events[i].p + n

\* The call threw at event i, the cursor n bytes further than the event
\* has it.
FailedAt(i, n) ==
    /\ i = Len(events)
    /\ pc = "thrown"
    /\ pos = events[i].p + n

\* C37: in readClassData of the older decoder, after the data of a level
\* that is SC_SERIALIZABLE with SC_WRITE_METHOD, or has SC_BLOCK_DATA, the
\* next byte is consumed, it alone, and the call fails unless it is
\* TC_ENDBLOCKDATA; after the data of any other level no byte is
\* consumed; and a SC_SERIALIZABLE level whose class name was not
\* registered fails with nothing read for it.
C37_EndBlockPerLevel ==
    /\ \A i \in EventsNamed("levelData") :
           IF EndBlockExpected(events[i].n)
           THEN IF events[i].p < Len(stream) /\ stream[events[i].p + 1] = TC_ENDBLOCKDATA
                THEN LevelEnded(i, 1)
                ELSE FailedAt(i, IF events[i].p < Len(stream) THEN 1 ELSE 0)
           ELSE LevelEnded(i, 0)
    /\ \A i \in EventsNamed("levelStart") :
           BitSet(events[i].n, SC_SERIALIZABLE) /\ events[i].b = 0 => FailedAt(i, 0)
====
